---------------------------- MODULE Spec2Model ----------------------------
(***************************************************************************)
(* The attention / drowsiness state machine of the EduQuest detection      *)
(* server (src/web_server.py) together with the part of the sleep          *)
(* detector it calls (src/sleep_detection/sleep_detection_module.py).      *)
(*                                                                         *)
(* Units.  Wall-clock time (time.time()) is counted in tenths of a second, *)
(* so 3.0 s is 30 and 5.0 s is 50.  The eye aspect ratio is counted in     *)
(* hundredths (0.25 is 25) and the eye area ratio in thousandths (0.025 is *)
(* 25).  All comparisons of the code are kept as they are written.         *)
(*                                                                         *)
(* A frame is what the detectors return for one decoded image:             *)
(*   image         "ok", "none" (no image field) or "bad" (undecodable)    *)
(*   face          face_detector.process_frame found at least one face     *)
(*   sleep         sleep_detector.process_frame returned a result (its own *)
(*                 Haar cascade found a face; the two detectors differ)    *)
(*   eyes_open     sleep_results[0]['eyes_open'], the estimator's verdict  *)
(*   eyes_detected, eye_area_ratio, avg_ear    keys of eye_data, NoVal     *)
(*                 when the key is absent                                  *)
(*   tilt, nod     head_position of sleep_results[0]                       *)
(***************************************************************************)
EXTENDS Integers, Sequences, FiniteSets, TLC

VARIABLES
    active_sessions,      \* web_server.active_sessions: session id -> record
    attention_warnings,   \* web_server.attention_warnings: session id -> list
    eye_closure_counter,  \* sleep_detector.eye_closure_counter['face_0']
    now,                  \* the latest reading of time.time()
    request,              \* the call handled last: [op, sid, frame]
    response,             \* what that call returned
    threads,              \* request threads (threaded=True): the calls in
                          \* flight that are followed statement by statement
    mood_data,            \* web_server.mood_data: session id -> list
    monitor,              \* an AttentionMonitor (src/attention_monitor.py)
    detector              \* a SleepDetection of its own, with the history
                          \* of eye states it keeps for every face id

vars == <<active_sessions, attention_warnings, eye_closure_counter, now,
          request, response, threads, mood_data, monitor, detector>>

-----------------------------------------------------------------------------
(* Program constants *)

EYE_CLOSURE_THRESHOLD_MIN == 30
SleepinessCooldown == 50
NoFaceLimit == 60
LookAwayLimit == 45
EAR_CONSECUTIVE_FRAMES == 3
HistoryWindow == 30
EarOpenThreshold == 25
EyeAreaMin == 25
EarClearlyOpen == 30
EarClearlyClosed == 20

(* Values standing for Python's None and for a key that is not in a dict *)
None == -1
Missing == -2
NoVal == -3

Get(v, default) == IF v = Missing \/ v = NoVal THEN default ELSE v

Max(a, b) == IF a > b THEN a ELSE b
Min(a, b) == IF a < b THEN a ELSE b

-----------------------------------------------------------------------------
(* Bounds of the model *)

\* first clock reading of a run; any value of at least 5.0 s, as time.time()
\* is seconds since 1970
ClockStart == 100
\* longest list of warnings kept for one session identifier
MaxWarnings == 2
\* largest value of sleep_detector.eye_closure_counter['face_0']
MaxClosureFrames == 3
\* largest value of a session's focus_time
MaxFocus == 1
\* longest run of no-face frames in a specification that caps the run
MaxNoFaceRun == 1
\* longest run of look-away frames in a specification that caps the run
MaxLookAwayRun == 3
\* longest time, in tenths of a second, between the first and the last clock
\* reading of one process_attention call
MaxCallTime == 1
MaxMoods == 2
MaxRuns == 3
ShortHistory == 2
MaxClosedRun == 32

SessionIds == {"default"}


-----------------------------------------------------------------------------
(* The sleep detector: SleepDetection.check_drowsiness for face id 'face_0', *)
(* the face whose result the handlers read (sleep_results[0]).               *)

\* eye_closure_counter after one check_drowsiness call
CheckDrowsiness(counter, eyes_open) ==
    IF ~eyes_open THEN counter + 1 ELSE 0

\* (variant: drowsy from the fourth closed frame on)
IsDrowsyLate(counter) == counter > EAR_CONSECUTIVE_FRAMES

\* drowsiness['is_drowsy'] as returned by that call
IsDrowsy(counter) == counter >= EAR_CONSECUTIVE_FRAMES

-----------------------------------------------------------------------------
(* process_attention: the eye-open verdicts *)

\* (variant: one detected eye is enough to leave the verdict alone)
EyesOpenAttentionOneEye(f) ==
    LET upstream == f.eyes_open
        byEar == IF f.avg_ear # NoVal THEN f.avg_ear > EarOpenThreshold
                                      ELSE upstream
        eyes_detected == Get(f.eyes_detected, 0)
    IN  IF eyes_detected = 0 /\ f.face THEN FALSE
        ELSE IF eyes_detected > 1
             THEN IF Get(f.eye_area_ratio, 0) < EyeAreaMin THEN FALSE ELSE byEar
        ELSE byEar

\* the local eyes_open after the first eye check (face branch)
EyesOpenAttention(f) ==
    LET upstream == f.eyes_open
        byEar == IF f.avg_ear # NoVal THEN f.avg_ear > EarOpenThreshold
                                      ELSE upstream
        eyes_detected == Get(f.eyes_detected, 0)
    IN  IF eyes_detected = 0 /\ f.face THEN FALSE
        ELSE IF eyes_detected = 1 THEN FALSE
        ELSE IF eyes_detected > 1
             THEN IF Get(f.eye_area_ratio, 0) < EyeAreaMin THEN FALSE ELSE byEar
        ELSE byEar

\* the local eyes_open after the second eye check (sleepiness status);
\* avg_ear is not read here
EyesOpenStatus(f) ==
    LET upstream == f.eyes_open
        eyes_detected == Get(f.eyes_detected, 0)
    IN  IF eyes_detected = 0 /\ f.face THEN FALSE
        ELSE IF eyes_detected = 1 THEN FALSE
        ELSE IF eyes_detected > 1
             THEN IF Get(f.eye_area_ratio, 0) < EyeAreaMin THEN FALSE ELSE upstream
        ELSE upstream

\* (variant: the sum of the four terms, not clamped)
AttentionScoreUnclamped(eyes_open, tilt, nod, avg_ear) ==
    LET face == 30
        eyes == IF eyes_open THEN 40 ELSE 0 - 20
        head == IF tilt = "center" /\ nod = "center" THEN 30 ELSE 0 - 15
        ear  == IF avg_ear # NoVal
                THEN IF avg_ear > EarClearlyOpen THEN 10
                     ELSE IF avg_ear < EarClearlyClosed THEN 0 - 10 ELSE 0
                ELSE 0
    IN  face + eyes + head + ear

\* attention_score
AttentionScore(eyes_open, tilt, nod, avg_ear) ==
    LET face == 30
        eyes == IF eyes_open THEN 40 ELSE 0 - 20
        head == IF tilt = "center" /\ nod = "center" THEN 30 ELSE 0 - 15
        ear  == IF avg_ear # NoVal
                THEN IF avg_ear > EarClearlyOpen THEN 10
                     ELSE IF avg_ear < EarClearlyClosed THEN 0 - 10 ELSE 0
                ELSE 0
    IN  Max(0, Min(100, face + eyes + head + ear))

\* (variant: the drowsy flag is not looked at)
LookingAwayHeadAndEyes(tilt, nod, is_drowsy, eyes_open) ==
    tilt # "center" \/ nod # "center" \/ ~eyes_open

\* the condition of the look-away branch
LookingAway(tilt, nod, is_drowsy, eyes_open) ==
    tilt # "center" \/ nod # "center" \/ is_drowsy \/ ~eyes_open

-----------------------------------------------------------------------------
(* Warnings *)

\* the 'message' of a warning dict.  The literals of the code begin with an
\* emoji, written here by its code points: U+26A0 U+FE0F (warning sign) and
\* U+1F634 (sleeping face).
Message(type) ==
    CASE type = "no_face" ->
           "<U+26A0 U+FE0F> Warning: You are not visible on screen. Please return to your seat."
      [] type = "look_away" ->
           "<U+26A0 U+FE0F> Warning: Please focus on the screen and pay attention to the class."
      [] type = "sleepiness" ->
           "<U+1F634> Warning: You appear to be sleepy! Please open your eyes and stay alert."
      [] OTHER -> ""

\* (variant: every warning is of high severity)
SeverityHigh(type) ==
    CASE type = "none" -> "" [] OTHER -> "high"

\* the 'severity' of a warning dict
Severity(type) ==
    CASE type = "no_face" -> "high"
      [] type = "look_away" -> "medium"
      [] type = "sleepiness" -> "high"
      [] OTHER -> ""

\* the 'play_sound' of a warning dict: True, False, or no such key
PlaySound(type) ==
    CASE type = "sleepiness" -> "True"
      [] type = "look_away" -> "False"
      [] OTHER -> "absent"

\* warning = None
NoWarning ==
    [type |-> "none", message |-> Message("none"), severity |-> Severity("none"),
     play_sound |-> PlaySound("none"), timestamp |-> None,
     closure_duration |-> NoVal]

Warning(type, t, duration) ==
    [type |-> type, message |-> Message(type), severity |-> Severity(type),
     play_sound |-> PlaySound(type), timestamp |-> t,
     closure_duration |-> duration]

\* warning lists of a session identifier in attention_warnings after a call
\* that produced warning w (the key is created on first use)
Recorded(warns, sid, w) ==
    IF w = NoWarning THEN warns
    ELSE IF sid \in DOMAIN warns
         THEN [warns EXCEPT ![sid] = Append(@, w)]
         ELSE [s \in DOMAIN warns \cup {sid} |->
                  IF s = sid THEN <<w>> ELSE warns[s]]

-----------------------------------------------------------------------------
(* process_attention: the steps that change a session record.  Each takes    *)
(* the record s and gives the record after the step and what the step        *)
(* leaves in the handler's local variables.                                  *)

\* (variant: the warning one frame early, as AttentionMonitor counts)
NoFaceBranchEarly(s, t) ==
    LET no_face_count == s.no_face_count + 1
    IN  IF no_face_count >= NoFaceLimit
        THEN [session |-> [s EXCEPT !.no_face_count = 0,
                                    !.warnings = Append(@, Warning("no_face", t, NoVal))],
              warning |-> Warning("no_face", t, NoVal)]
        ELSE [session |-> [s EXCEPT !.no_face_count = no_face_count],
              warning |-> NoWarning]

\* no-face branch, for a session that is in active_sessions
NoFaceBranch(s, t) ==
    LET no_face_count == s.no_face_count + 1
    IN  IF no_face_count > NoFaceLimit
        THEN [session |-> [s EXCEPT !.no_face_count = 0,
                                    !.warnings = Append(@, Warning("no_face", t, NoVal))],
              warning |-> Warning("no_face", t, NoVal)]
        ELSE [session |-> [s EXCEPT !.no_face_count = no_face_count],
              warning |-> NoWarning]

\* face branch, first lines: the counters of face presence
\* (face_detected_count is a key of the record whose value no handler reads
\* before stop; the model keeps the key and not the count)
FacePresent(s) ==
    [s EXCEPT !.no_face_count = 0]

\* (variant: the warning only after more than 3.0 s, and no cooldown kept
\* between warnings)
ClosureTrackingLate(s, eyes_open, t) ==
    LET s1 == IF s.eye_closure_start_time = Missing
              THEN [s EXCEPT !.eye_closure_start_time = None,
                             !.last_warning_time = 0]
              ELSE s
    IN  IF ~eyes_open
        THEN LET started == IF s1.eye_closure_start_time = None
                            THEN t ELSE s1.eye_closure_start_time
                 closure_duration == t - started
                 s2 == [s1 EXCEPT !.eye_closure_start_time = started]
             IN  IF closure_duration > EYE_CLOSURE_THRESHOLD_MIN
                 THEN [session |->
                          [s2 EXCEPT !.warnings =
                                        Append(@, Warning("sleepiness", t, closure_duration)),
                                     !.last_warning_time = t],
                       warning |-> Warning("sleepiness", t, closure_duration)]
                 ELSE [session |-> s2, warning |-> NoWarning]
        ELSE [session |-> [s1 EXCEPT !.eye_closure_start_time = None],
              warning |-> NoWarning]

\* eye-closure tracking of the face branch (current_time = t)
ClosureTracking(s, eyes_open, t) ==
    LET s1 == IF s.eye_closure_start_time = Missing
              THEN [s EXCEPT !.eye_closure_start_time = None,
                             !.last_warning_time = 0]
              ELSE s
    IN  IF ~eyes_open
        THEN LET started == IF s1.eye_closure_start_time = None
                            THEN t ELSE s1.eye_closure_start_time
                 closure_duration == t - started
                 s2 == [s1 EXCEPT !.eye_closure_start_time = started]
             IN  IF /\ closure_duration >= EYE_CLOSURE_THRESHOLD_MIN
                    /\ t - Get(s2.last_warning_time, 0) >= SleepinessCooldown
                 THEN [session |->
                          [s2 EXCEPT !.warnings =
                                        Append(@, Warning("sleepiness", t, closure_duration)),
                                     !.last_warning_time = t],
                       warning |-> Warning("sleepiness", t, closure_duration)]
                 ELSE [session |-> s2, warning |-> NoWarning]
        ELSE [session |-> [s1 EXCEPT !.eye_closure_start_time = None],
              warning |-> NoWarning]

\* (variant: the warning one frame early, as AttentionMonitor counts)
LookAwayBranchEarly(s, away, warning, t) ==
    IF away
    THEN LET look_away_count == s.look_away_count + 1
         IN  IF look_away_count >= LookAwayLimit
             THEN IF warning = NoWarning
                  THEN [session |-> [s EXCEPT !.look_away_count = 0,
                                              !.warnings =
                                                 Append(@, Warning("look_away", t, NoVal))],
                        warning |-> Warning("look_away", t, NoVal),
                        looking_at_screen |-> FALSE]
                  ELSE [session |-> [s EXCEPT !.look_away_count = 0],
                        warning |-> warning,
                        looking_at_screen |-> FALSE]
             ELSE [session |-> [s EXCEPT !.look_away_count = look_away_count],
                   warning |-> warning,
                   looking_at_screen |-> FALSE]
    ELSE [session |-> [s EXCEPT !.look_away_count = 0,
                                !.focus_time = Get(@, 0) + 1],
          warning |-> warning,
          looking_at_screen |-> TRUE]

\* (variant: the look_away warning replaces a sleepiness warning of the call)
LookAwayBranchOverride(s, away, warning, t) ==
    IF away
    THEN LET look_away_count == s.look_away_count + 1
         IN  IF look_away_count > LookAwayLimit
             THEN [session |-> [s EXCEPT !.look_away_count = 0,
                                         !.warnings =
                                            Append(@, Warning("look_away", t, NoVal))],
                   warning |-> Warning("look_away", t, NoVal),
                   looking_at_screen |-> FALSE]
             ELSE [session |-> [s EXCEPT !.look_away_count = look_away_count],
                   warning |-> warning,
                   looking_at_screen |-> FALSE]
    ELSE [session |-> [s EXCEPT !.look_away_count = 0,
                                !.focus_time = Get(@, 0) + 1],
          warning |-> warning,
          looking_at_screen |-> TRUE]

\* look-away branch of the face branch; warning is the one produced so far
LookAwayBranch(s, away, warning, t) ==
    IF away
    THEN LET look_away_count == s.look_away_count + 1
         IN  IF look_away_count > LookAwayLimit
             THEN IF warning = NoWarning
                  THEN [session |-> [s EXCEPT !.look_away_count = 0,
                                              !.warnings =
                                                 Append(@, Warning("look_away", t, NoVal))],
                        warning |-> Warning("look_away", t, NoVal),
                        looking_at_screen |-> FALSE]
                  ELSE [session |-> [s EXCEPT !.look_away_count = 0],
                        warning |-> warning,
                        looking_at_screen |-> FALSE]
             ELSE [session |-> [s EXCEPT !.look_away_count = look_away_count],
                   warning |-> warning,
                   looking_at_screen |-> FALSE]
    ELSE [session |-> [s EXCEPT !.look_away_count = 0,
                                !.focus_time = Get(@, 0) + 1],
          warning |-> warning,
          looking_at_screen |-> TRUE]

\* (variant: open eyes reported without clearing the closure start time)
SleepinessStatusKeep(s, eyes_open, t) ==
    IF eyes_open
    THEN [session |-> s,
          status |-> [eyes_open |-> TRUE, closure_duration |-> 0, is_sleepy |-> FALSE]]
    ELSE IF Get(s.eye_closure_start_time, None) # None
         THEN [session |-> s,
               status |-> [eyes_open |-> FALSE,
                           closure_duration |-> t - s.eye_closure_start_time,
                           is_sleepy |-> t - s.eye_closure_start_time
                                            >= EYE_CLOSURE_THRESHOLD_MIN]]
         ELSE [session |-> s,
               status |-> [eyes_open |-> FALSE, closure_duration |-> 0,
                           is_sleepy |-> FALSE]]

\* (variant: sleepy only after more than 3.0 s)
SleepinessStatusStrict(s, eyes_open, t) ==
    IF eyes_open
    THEN [session |-> [s EXCEPT !.eye_closure_start_time = None],
          status |-> [eyes_open |-> TRUE, closure_duration |-> 0, is_sleepy |-> FALSE]]
    ELSE IF Get(s.eye_closure_start_time, None) # None
         THEN [session |-> s,
               status |-> [eyes_open |-> FALSE,
                           closure_duration |-> t - s.eye_closure_start_time,
                           is_sleepy |-> t - s.eye_closure_start_time
                                            > EYE_CLOSURE_THRESHOLD_MIN]]
         ELSE [session |-> s,
               status |-> [eyes_open |-> FALSE, closure_duration |-> 0,
                           is_sleepy |-> FALSE]]

\* the sleepiness status of the response, for a session in active_sessions
\* and a frame with a sleep result (time.time() = t)
SleepinessStatus(s, eyes_open, t) ==
    IF eyes_open
    THEN [session |-> [s EXCEPT !.eye_closure_start_time = None],
          status |-> [eyes_open |-> TRUE, closure_duration |-> 0, is_sleepy |-> FALSE]]
    ELSE IF Get(s.eye_closure_start_time, None) # None
         THEN [session |-> s,
               status |-> [eyes_open |-> FALSE,
                           closure_duration |-> t - s.eye_closure_start_time,
                           is_sleepy |-> t - s.eye_closure_start_time
                                            >= EYE_CLOSURE_THRESHOLD_MIN]]
         ELSE [session |-> s,
               status |-> [eyes_open |-> FALSE, closure_duration |-> 0,
                           is_sleepy |-> FALSE]]

\* the sleepiness status a response starts from
DefaultStatus == [eyes_open |-> TRUE, closure_duration |-> 0, is_sleepy |-> FALSE]


-----------------------------------------------------------------------------
(* The session map *)

Put(map, key, value) ==
    [k \in DOMAIN map \cup {key} |-> IF k = key THEN value ELSE map[k]]

Delete(map, key) == [k \in DOMAIN map \ {key} |-> map[k]]

\* the record start_attention_monitoring stores
AttentionRecord(t) ==
    [type |-> "attention", started_at |-> t, warnings |-> <<>>,
     face_detected_count |-> 0, no_face_count |-> 0, look_away_count |-> 0,
     eye_closure_start_time |-> Missing, last_warning_time |-> Missing,
     focus_time |-> Missing, distractions |-> Missing,
     attention_level |-> Missing]

\* the record start_mood_detection stores under the same identifier, in the
\* same map: it has none of the keys 'warnings', 'face_detected_count',
\* 'no_face_count', 'look_away_count'.  No handler adds 'warnings' or
\* 'face_detected_count' to a record, so a record has these two keys exactly
\* when its type is "attention".  ('mood_history' stays empty and is left out.)
MoodRecord(t) ==
    [type |-> "mood", started_at |-> t, warnings |-> <<>>,
     face_detected_count |-> Missing, no_face_count |-> Missing,
     look_away_count |-> Missing,
     eye_closure_start_time |-> Missing, last_warning_time |-> Missing,
     focus_time |-> Missing, distractions |-> Missing,
     attention_level |-> Missing]

\* the two maps when process_attention stops on a KeyError: a record that
\* lacks a key the handler indexes.  On a face frame line 384 has stored
\* no_face_count = 0 before line 385 fails on 'face_detected_count'; on a
\* no-face frame line 366 fails on 'no_face_count' if that key is missing,
\* and otherwise lines 366-379 have counted the frame and appended the
\* warning to attention_warnings before line 380 fails on 'warnings'.
KeyErrorOutcome(sessions, warns, sid, f, tc) ==
    IF sid \notin DOMAIN sessions THEN [sessions |-> sessions, warns |-> warns]
    ELSE IF f.face
    THEN [sessions |-> [sessions EXCEPT ![sid] = FacePresent(@)], warns |-> warns]
    ELSE IF sessions[sid].no_face_count = Missing
    THEN [sessions |-> sessions, warns |-> warns]
    ELSE [sessions |-> [sessions EXCEPT ![sid].no_face_count = @ + 1],
          warns |-> Recorded(warns, sid, Warning("no_face", tc, NoVal))]

\* process_attention raises KeyError on this frame
RaisesKeyError(sessions, sid, f) ==
    IF sid \notin DOMAIN sessions THEN f.face
    ELSE IF f.face THEN sessions[sid].face_detected_count = Missing
    ELSE \/ sessions[sid].no_face_count = Missing
         \/ /\ sessions[sid].type # "attention"
            /\ sessions[sid].no_face_count + 1 > NoFaceLimit

-----------------------------------------------------------------------------
(* process_attention as a whole: what a call for session sid on frame f      *)
(* returns and what it leaves in the two maps.  is_drowsy is the flag the    *)
(* sleep detector computed for this frame; tc, tw and ts are the readings of *)
(* time.time(): tc for the no_face timestamp or current_time, tw for the     *)
(* look_away timestamp, ts for the closure duration of the status.           *)

\* (variant: image data that cannot be decoded is taken for an empty picture)
DecodedOrBlank(f) == f.image # "none"

\* the request has an image and process_image_from_base64 returns a frame
Decoded(f) == f.image = "ok"

ErrorResponse(code) == [kind |-> "process", status |-> "error", code |-> code]

ProcessOutcome(sessions, warns, sid, f, is_drowsy, tc, tw, ts) ==
    IF ~Decoded(f)
    THEN [sessions |-> sessions, warns |-> warns, response |-> ErrorResponse(400)]
    ELSE IF RaisesKeyError(sessions, sid, f)
    THEN LET left == KeyErrorOutcome(sessions, warns, sid, f, tc)
         IN  [sessions |-> left.sessions, warns |-> left.warns,
              response |-> ErrorResponse(500)]
    ELSE
    LET live == sid \in DOMAIN sessions
        \* first part: the face-presence branch
        eyes_attn == IF f.face /\ f.sleep THEN EyesOpenAttention(f) ELSE f.eyes_open
        first ==
            IF ~f.face
            THEN IF live
                 THEN LET nf == NoFaceBranch(sessions[sid], tc)
                      IN  [session |-> nf.session, warning |-> nf.warning,
                           looking |-> FALSE, level |-> 0]
                 ELSE [session |-> None, warning |-> NoWarning,
                       looking |-> FALSE, level |-> 0]
            ELSE LET s0 == FacePresent(sessions[sid])
                 IN  IF ~f.sleep
                     THEN [session |-> s0, warning |-> NoWarning,
                           looking |-> FALSE, level |-> 0]
                     ELSE LET ct == ClosureTracking(s0, eyes_attn, tc)
                              la == LookAwayBranch(ct.session,
                                       LookingAway(f.tilt, f.nod, is_drowsy, eyes_attn),
                                       ct.warning, tw)
                          IN  [session |-> la.session, warning |-> la.warning,
                               looking |-> la.looking_at_screen,
                               level |-> AttentionScore(eyes_attn, f.tilt, f.nod,
                                                        f.avg_ear)]
        \* second part: the sleepiness status
        second ==
            IF ~f.sleep
            THEN [session |-> first.session, status |-> DefaultStatus]
            ELSE IF ~live
            THEN [session |-> first.session,
                  status |-> [DefaultStatus EXCEPT !.eyes_open = EyesOpenStatus(f)]]
            ELSE SleepinessStatus(first.session, EyesOpenStatus(f), ts)
    IN  [sessions |-> IF live THEN [sessions EXCEPT ![sid] = second.session]
                              ELSE sessions,
         warns |-> Recorded(warns, sid, first.warning),
         response |->
            [kind |-> "process", status |-> "success", code |-> 200,
             attention |-> [face_detected |-> f.face,
                            looking_at_screen |-> first.looking,
                            attention_level |-> first.level],
             sleepiness |-> second.status,
             warning |-> first.warning,
             eyes_open |-> eyes_attn]]


-----------------------------------------------------------------------------
(* The two classes taken on their own *)

\* AttentionMonitor.__init__: the state of a new monitor.  Its own
\* SleepDetection is kept as the frame count it holds for the first face.
AttentionMonitor(warning_threshold_no_face, warning_threshold_look_away) ==
    [warning_threshold_no_face |-> warning_threshold_no_face,
     warning_threshold_look_away |-> warning_threshold_look_away,
     no_face_counter |-> 0,
     look_away_counter |-> 0,
     warnings |-> <<>>,
     eye_closure_counter |-> 0]

\* SleepDetection.__init__: both dicts empty
SleepDetection == [eye_closure_counter |-> <<>>, eye_closure_history |-> <<>>]

-----------------------------------------------------------------------------
(* Frames *)

Frame(image, face, sleep, eyes_open, eyes_detected, eye_area_ratio, avg_ear, tilt, nod) ==
    [image |-> image, face |-> face, sleep |-> sleep, eyes_open |-> eyes_open,
     eyes_detected |-> eyes_detected, eye_area_ratio |-> eye_area_ratio,
     avg_ear |-> avg_ear, tilt |-> tilt, nod |-> nod]

\* a frame whose sleep result is empty: there is no eye or head data to read
Blank(image, face) ==
    Frame(image, face, FALSE, TRUE, NoVal, NoVal, NoVal, "center", "center")

NoImage       == Blank("none", FALSE)
BadImage      == Blank("bad", FALSE)
NoFace        == Blank("ok", FALSE)
FaceOnly      == Blank("ok", TRUE)
\* the cascade of the sleep detector finds a face the face detector missed
NoFaceEyesOpen   == Frame("ok", FALSE, TRUE, TRUE, 2, 30, NoVal, "center", "center")
NoFaceEyesClosed == Frame("ok", FALSE, TRUE, TRUE, 1, NoVal, NoVal, "center", "center")
\* face frames with an eye and head-pose result
Attentive     == Frame("ok", TRUE, TRUE, TRUE, 2, 30, NoVal, "center", "center")
LeftOpen      == Frame("ok", TRUE, TRUE, TRUE, 2, 30, NoVal, "left", "center")
\* no eye found although the estimator's flag says open: the handler's
\* "additional check" decides
Closed        == Frame("ok", TRUE, TRUE, TRUE, 0, NoVal, NoVal, "center", "center")
LeftClosed    == Frame("ok", TRUE, TRUE, TRUE, 0, NoVal, NoVal, "left", "center")
NodDown       == Frame("ok", TRUE, TRUE, TRUE, 2, 30, 35, "center", "down")
NodDownClosed == Frame("ok", TRUE, TRUE, FALSE, 0, NoVal, 15, "center", "down")
\* flag closed, landmarks open: only the first eye check reads avg_ear
FlagClosedEarOpen == Frame("ok", TRUE, TRUE, FALSE, 2, 30, 35, "center", "center")
\* flag open, landmarks closed
FlagOpenEarClosed == Frame("ok", TRUE, TRUE, TRUE, 2, 30, 19, "center", "center")

\* the frames of Spec: the estimator's flag is open in all of them, so the
\* drowsy flag stays false
TimingFrames ==
    {NoImage, BadImage, NoFace, FaceOnly, NoFaceEyesOpen, NoFaceEyesClosed,
     Attentive, LeftOpen, Closed, FlagOpenEarClosed}

-----------------------------------------------------------------------------
(* Request threads.  app.run(threaded=True) serves every request in a       *)
(* thread of its own and the handlers take no lock, so the interpreter may  *)
(* switch threads between any two reads or writes of the shared maps.  A    *)
(* thread holds the call it serves: where it stands (pc), the identifier,   *)
(* the value it last read (no_face_count) and the warning it built.         *)

Threads == {1, 2}

Idle == [pc |-> "idle", sid |-> "", no_face_count |-> 0, warning |-> NoWarning]

-----------------------------------------------------------------------------
(* Initial state: the module-level statements of web_server.py and          *)
(* SleepDetection.__init__                                                  *)

Init ==
    /\ active_sessions = <<>>
    /\ attention_warnings = <<>>
    /\ eye_closure_counter = 0
    /\ now = ClockStart
    /\ request = [op |-> "init"]
    /\ response = [kind |-> "init"]
    /\ threads = [th \in Threads |-> Idle]
    /\ mood_data = <<>>
    /\ monitor = AttentionMonitor(60, 45)
    /\ detector = SleepDetection

-----------------------------------------------------------------------------
(* The handlers.  Each takes the readings of time.time() it makes.          *)

start_attention_monitoring(sid, t) ==
    /\ t >= now
    /\ active_sessions' = Put(active_sessions, sid, AttentionRecord(t))
    /\ now' = t
    /\ request' = [op |-> "start", sid |-> sid]
    /\ response' = [kind |-> "start", status |-> "success"]
    /\ UNCHANGED <<mood_data, monitor, detector>>
    /\ UNCHANGED <<attention_warnings, eye_closure_counter, threads>>

start_mood_detection(sid, t) ==
    /\ t >= now
    /\ active_sessions' = Put(active_sessions, sid, MoodRecord(t))
    /\ now' = t
    /\ request' = [op |-> "mood_start", sid |-> sid]
    /\ response' = [kind |-> "mood_start", status |-> "success"]
    /\ UNCHANGED <<mood_data, monitor, detector>>
    /\ UNCHANGED <<attention_warnings, eye_closure_counter, threads>>

\* process_attention on a decodable frame without a face and without a sleep
\* result, statement by statement (lines 363-381, then 566).
\* line 365: session_id in active_sessions
Receive(th, sid) ==
    /\ threads[th].pc = "idle"
    /\ threads' = [threads EXCEPT ![th] =
                      [Idle EXCEPT !.sid = sid,
                                   !.pc = IF sid \in DOMAIN active_sessions
                                          THEN "load" ELSE "respond"]]
    /\ UNCHANGED <<mood_data, monitor, detector>>
    /\ UNCHANGED <<active_sessions, attention_warnings, eye_closure_counter,
                   now, request, response>>

\* the record of the call of thread th is still in active_sessions.  The
\* membership test of line 365 is made once; every later statement indexes
\* active_sessions[session_id] anew and raises KeyError when a stop call has
\* deleted the record in between.
Held(th) == threads[th].sid \in DOMAIN active_sessions

\* line 366, the read of  ['no_face_count'] += 1
LoadCount(th) ==
    /\ threads[th].pc = "load"
    /\ threads' = IF Held(th)
                  THEN [threads EXCEPT ![th].pc = "store",
                                       ![th].no_face_count =
                                          active_sessions[threads[th].sid].no_face_count]
                  ELSE [threads EXCEPT ![th].pc = "fail"]
    /\ UNCHANGED <<mood_data, monitor, detector>>
    /\ UNCHANGED <<active_sessions, attention_warnings, eye_closure_counter,
                   now, request, response>>

\* line 366, the write of  ['no_face_count'] += 1
\* (the record was fetched by the read; when it has been deleted since, the
\* write goes to the deleted record and the map stays as it is)
StoreCount(th) ==
    /\ threads[th].pc = "store"
    /\ active_sessions' =
          IF Held(th)
          THEN [active_sessions EXCEPT ![threads[th].sid].no_face_count =
                   threads[th].no_face_count + 1]
          ELSE active_sessions
    /\ threads' = [threads EXCEPT ![th].pc = "read"]
    /\ UNCHANGED <<mood_data, monitor, detector>>
    /\ UNCHANGED <<attention_warnings, eye_closure_counter, now, request,
                   response>>

\* lines 367 and 370: no_face_count = ...['no_face_count']; if no_face_count > 60
ReadCount(th) ==
    /\ threads[th].pc = "read"
    /\ threads' =
          IF Held(th)
          THEN LET no_face_count == active_sessions[threads[th].sid].no_face_count
               IN  [threads EXCEPT ![th].no_face_count = no_face_count,
                                   ![th].pc = IF no_face_count > NoFaceLimit
                                              THEN "warn" ELSE "respond"]
          ELSE [threads EXCEPT ![th].pc = "fail"]
    /\ UNCHANGED <<mood_data, monitor, detector>>
    /\ UNCHANGED <<active_sessions, attention_warnings, eye_closure_counter,
                   now, request, response>>

\* lines 371-380: the warning is built and appended to both lists
AppendWarning(th, t) ==
    /\ threads[th].pc = "warn"
    /\ t >= now
    /\ LET sid == threads[th].sid
           warning == Warning("no_face", t, NoVal)
       IN  /\ attention_warnings' = Recorded(attention_warnings, sid, warning)
           /\ Len(attention_warnings'[sid]) <= MaxWarnings
           /\ active_sessions' =
                 IF Held(th)
                 THEN [active_sessions EXCEPT ![sid].warnings = Append(@, warning)]
                 ELSE active_sessions
           /\ threads' = IF Held(th)
                         THEN [threads EXCEPT ![th].warning = warning,
                                              ![th].pc = "reset"]
                         ELSE [threads EXCEPT ![th].pc = "fail"]
    /\ now' = t
    /\ UNCHANGED <<mood_data, monitor, detector>>
    /\ UNCHANGED <<eye_closure_counter, request, response>>

\* line 381: ['no_face_count'] = 0
ResetCount(th) ==
    /\ threads[th].pc = "reset"
    /\ active_sessions' =
          IF Held(th)
          THEN [active_sessions EXCEPT ![threads[th].sid].no_face_count = 0]
          ELSE active_sessions
    /\ threads' = [threads EXCEPT ![th].pc = IF Held(th) THEN "respond"
                                                         ELSE "fail"]
    /\ UNCHANGED <<mood_data, monitor, detector>>
    /\ UNCHANGED <<attention_warnings, eye_closure_counter, now, request,
                   response>>

\* lines 521-571: the status stays at its defaults and the call returns
Respond(th) ==
    /\ threads[th].pc = "respond"
    /\ request' = [op |-> "process", sid |-> threads[th].sid,
                   frame |-> NoFace, tc |-> now]
    /\ response' =
          [kind |-> "process", status |-> "success", code |-> 200,
           attention |-> [face_detected |-> FALSE,
                          looking_at_screen |-> FALSE,
                          attention_level |-> 0],
           sleepiness |-> DefaultStatus,
           warning |-> threads[th].warning,
           eyes_open |-> NoFace.eyes_open]
    /\ threads' = [threads EXCEPT ![th] = Idle]
    /\ UNCHANGED <<mood_data, monitor, detector>>
    /\ UNCHANGED <<active_sessions, attention_warnings, eye_closure_counter,
                   now>>

\* lines 573-574: the KeyError is caught and the call returns status 500
Fail(th) ==
    /\ threads[th].pc = "fail"
    /\ request' = [op |-> "process", sid |-> threads[th].sid,
                   frame |-> NoFace, tc |-> now]
    /\ response' = ErrorResponse(500)
    /\ threads' = [threads EXCEPT ![th] = Idle]
    /\ UNCHANGED <<mood_data, monitor, detector>>
    /\ UNCHANGED <<active_sessions, attention_warnings, eye_closure_counter,
                   now>>

\* the bounds of the model: a call is taken while its results stay within
\* them (noFaceCap and lookAwayCap are the limits of the code where a
\* specification does not cap the streak)
WithinBounds(out, counter, sid, noFaceCap, lookAwayCap) ==
    /\ counter <= MaxClosureFrames
    /\ sid \in DOMAIN out.warns => Len(out.warns[sid]) <= MaxWarnings
    /\ sid \in DOMAIN out.sessions =>
          /\ Get(out.sessions[sid].focus_time, 0) <= MaxFocus
          /\ out.sessions[sid].no_face_count <= noFaceCap
          /\ out.sessions[sid].look_away_count <= lookAwayCap

\* eye_closure_counter after the call: sleep_detector.process_frame runs
\* once the image is decoded, and check_drowsiness for each face it finds
Tracked(counter, f) ==
    IF Decoded(f) /\ f.sleep THEN CheckDrowsiness(counter, f.eyes_open)
                             ELSE counter

process_attention(sid, f, tc, tw, ts, noFaceCap, lookAwayCap) ==
    /\ now <= tc /\ tc <= tw /\ tw <= ts /\ ts <= tc + MaxCallTime
    /\ LET decoded == Decoded(f)
           counter == Tracked(eye_closure_counter, f)
           out == ProcessOutcome(active_sessions, attention_warnings, sid, f,
                                 IsDrowsy(counter), tc, tw, ts)
       IN  /\ WithinBounds(out, counter, sid, noFaceCap, lookAwayCap)
           /\ active_sessions' = out.sessions
           /\ attention_warnings' = out.warns
           /\ eye_closure_counter' = counter
           /\ now' = IF decoded THEN ts ELSE now
           /\ request' = [op |-> "process", sid |-> sid, frame |-> f, tc |-> tc]
           /\ response' = out.response
    /\ UNCHANGED <<mood_data, monitor, detector>>
    /\ UNCHANGED threads

\* the two maps and the response after stop_attention_monitoring
\* (time.time() = t).  The handler has no try: on a record without
\* 'started_at', the one process_mood creates, line 590 raises KeyError
\* before anything is deleted and the server answers with status 500.
StopOutcome(sessions, warns, sid, t) ==
    LET stored == IF sid \in DOMAIN warns THEN warns[sid] ELSE <<>>
        found == sid \in DOMAIN sessions
    IN  IF found /\ sessions[sid].started_at = Missing
        THEN [sessions |-> sessions, warns |-> warns,
              response |-> [kind |-> "stop", status |-> "error", code |-> 500]]
        ELSE [sessions |-> Delete(sessions, sid),
              warns |-> Delete(warns, sid),
              response |->
                 [kind |-> "stop", status |-> "success",
                  total_warnings |-> Len(stored),
                  warnings |-> stored,
                  session_duration |-> IF found
                                       THEN t - sessions[sid].started_at
                                       ELSE 0]]

stop_attention_monitoring(sid, t) ==
    /\ t >= now
    /\ LET out == StopOutcome(active_sessions, attention_warnings, sid, t)
       IN  /\ response' = out.response
           /\ active_sessions' = out.sessions
           /\ attention_warnings' = out.warns
    /\ now' = t
    /\ request' = [op |-> "stop", sid |-> sid]
    /\ UNCHANGED <<mood_data, monitor, detector>>
    /\ UNCHANGED <<eye_closure_counter, threads>>

-----------------------------------------------------------------------------
(* The mood endpoints *)

\* the record process_mood stores for an identifier it does not find: it has
\* no 'started_at'
LazyMoodRecord ==
    [type |-> "mood", started_at |-> Missing, warnings |-> <<>>,
     face_detected_count |-> Missing, no_face_count |-> Missing,
     look_away_count |-> Missing,
     eye_closure_start_time |-> None, last_warning_time |-> 0,
     focus_time |-> 0, distractions |-> 0, attention_level |-> 0]

\* the local eyes_open of process_mood: the count and the area ratio are
\* looked at only when the face detector found a face; avg_ear is not read
EyesOpenMood(f) ==
    LET upstream == f.eyes_open
        eyes_detected == Get(f.eyes_detected, 0)
    IN  IF ~f.face THEN upstream
        ELSE IF eyes_detected = 0 THEN FALSE
        ELSE IF eyes_detected = 1 THEN FALSE
        ELSE IF eyes_detected > 1
             THEN IF Get(f.eye_area_ratio, 0) < EyeAreaMin THEN FALSE ELSE upstream
        ELSE upstream

\* process_mood indexes session['eye_closure_start_time'] on closed eyes
MoodRaisesKeyError(s, f) ==
    f.sleep /\ ~EyesOpenMood(f) /\ s.eye_closure_start_time = Missing

\* the closure tracking of process_mood on a frame with a sleep result
\* (current_time = t), for a record that has the key it indexes
MoodClosure(s, eyes_open, t) ==
    IF eyes_open
    THEN [session |-> [s EXCEPT !.eye_closure_start_time = None],
          status |-> DefaultStatus, warning |-> NoWarning]
    ELSE LET started == IF s.eye_closure_start_time = None
                        THEN t ELSE s.eye_closure_start_time
             closure_duration == t - started
             is_sleepy == closure_duration >= EYE_CLOSURE_THRESHOLD_MIN
             warn == is_sleepy
                     /\ t - Get(s.last_warning_time, 0) >= SleepinessCooldown
         IN  [session |-> [s EXCEPT !.eye_closure_start_time = started,
                                    !.last_warning_time =
                                        IF warn THEN t ELSE @],
              status |-> [eyes_open |-> FALSE,
                          closure_duration |-> closure_duration,
                          is_sleepy |-> is_sleepy],
              warning |-> IF warn
                          THEN Warning("sleepiness", t, closure_duration)
                          ELSE NoWarning]

\* attention_score of process_mood.  Its middle head term (+20 when both
\* offsets are below 0.2) needs tilt or nod off center, which
\* detect_head_position reports only for an offset above 0.3, so the term is
\* never added.  The EAR term is under  if eye_data.get('avg_ear'):  and is
\* skipped for an EAR of 0.0 as for a missing one.
MoodScore(eyes_open, tilt, nod, avg_ear) ==
    LET face == 30
        eyes == IF eyes_open THEN 40 ELSE 0 - 20
        head == IF tilt = "center" /\ nod = "center" THEN 30 ELSE 0 - 15
        ear  == IF avg_ear # NoVal /\ avg_ear # 0
                THEN IF avg_ear > EarClearlyOpen THEN 10
                     ELSE IF avg_ear < EarClearlyClosed THEN 0 - 10 ELSE 0
                ELSE 0
    IN  Max(0, Min(100, face + eyes + head + ear))

\* focus_status
MoodFocus(f, eyes_open) ==
    IF ~f.face
    THEN [face_detected |-> FALSE, looking_at_screen |-> FALSE,
          attention_level |-> 0]
    ELSE IF ~f.sleep
    THEN [face_detected |-> TRUE, looking_at_screen |-> FALSE,
          attention_level |-> 50]
    ELSE LET score == MoodScore(eyes_open, f.tilt, f.nod, f.avg_ear)
         IN  [face_detected |-> TRUE,
              looking_at_screen |-> /\ f.tilt = "center" /\ f.nod = "center"
                                    /\ eyes_open /\ score >= 70,
              attention_level |-> score]

\* what mood_detector.process_frame finds in the frame: the emotion of the
\* first face, or "none" for an empty result
Emotions == {"happy", "neutral"}

\* the two maps and the response after process_mood on frame f
MoodOutcome(sessions, moods, sid, f, emotion, t) ==
    IF ~Decoded(f)
    THEN [sessions |-> sessions, moods |-> moods,
          response |-> [ErrorResponse(400) EXCEPT !.kind = "mood_process"]]
    ELSE
    LET found == IF sid \in DOMAIN sessions THEN sessions
                 ELSE Put(sessions, sid, LazyMoodRecord)
        s == found[sid]
    IN  IF MoodRaisesKeyError(s, f)
        THEN [sessions |-> found, moods |-> moods,
              response |-> [ErrorResponse(500) EXCEPT !.kind = "mood_process"]]
        ELSE
        LET eyes_open == IF f.sleep THEN EyesOpenMood(f) ELSE TRUE
            closure == IF f.sleep THEN MoodClosure(s, eyes_open, t)
                       ELSE [session |-> s, status |-> DefaultStatus,
                             warning |-> NoWarning]
            focus == MoodFocus(f, eyes_open)
            s1 == [closure.session EXCEPT
                     !.focus_time = IF focus.looking_at_screen
                                    THEN Get(@, 0) + 1 ELSE @,
                     !.attention_level = focus.attention_level]
            list == IF sid \in DOMAIN moods THEN moods[sid] ELSE <<>>
        IN  [sessions |-> [found EXCEPT ![sid] = s1],
             moods |-> IF emotion = "none" THEN moods
                       ELSE Put(moods, sid, Append(list, emotion)),
             response |->
                [kind |-> "mood_process",
                 status |-> IF emotion = "none" THEN "no_face" ELSE "success",
                 code |-> 200,
                 mood |-> emotion,
                 sleepiness |-> closure.status,
                 focus |-> focus,
                 warning |-> closure.warning]]

process_mood(sid, f, emotion, t) ==
    /\ now <= t
    /\ LET out == MoodOutcome(active_sessions, mood_data, sid, f, emotion, t)
           counter == Tracked(eye_closure_counter, f)
       IN  /\ counter <= MaxClosureFrames
           /\ sid \in DOMAIN out.moods => Len(out.moods[sid]) <= MaxMoods
           /\ sid \in DOMAIN out.sessions =>
                  Get(out.sessions[sid].focus_time, 0) <= MaxFocus
           /\ active_sessions' = out.sessions
           /\ mood_data' = out.moods
           /\ eye_closure_counter' = counter
           /\ now' = IF Decoded(f) THEN t ELSE now
           /\ request' = [op |-> "mood_process", sid |-> sid, frame |-> f,
                          tc |-> t]
           /\ response' = out.response
    /\ UNCHANGED <<attention_warnings, threads, monitor, detector>>

\* Counter(emotions).most_common(1)[0][0]: the emotion counted most often,
\* the one met first among equals
DominantEmotion(list) ==
    LET count(e) == Cardinality({i \in DOMAIN list : list[i] = e})
        first(e) == CHOOSE i \in DOMAIN list :
                        list[i] = e /\ \A j \in 1..(i - 1) : list[j] # e
    IN  IF list = <<>> THEN "none"
        ELSE CHOOSE e \in {list[i] : i \in DOMAIN list} :
                \A d \in {list[i] : i \in DOMAIN list} :
                    \/ count(e) > count(d)
                    \/ count(e) = count(d) /\ first(e) <= first(d)

stop_mood_detection(sid) ==
    /\ LET list == IF sid \in DOMAIN mood_data THEN mood_data[sid] ELSE <<>>
       IN  response' = [kind |-> "mood_stop", status |-> "success",
                        total_detections |-> Len(list),
                        mood_history |-> list,
                        dominant_emotion |-> DominantEmotion(list)]
    /\ active_sessions' = Delete(active_sessions, sid)
    /\ mood_data' = Delete(mood_data, sid)
    /\ request' = [op |-> "mood_stop", sid |-> sid]
    /\ UNCHANGED <<attention_warnings, eye_closure_counter, now, threads,
                   monitor, detector>>

-----------------------------------------------------------------------------
(* AttentionMonitor *)

MonitorNone == [type |-> "none", message |-> "", severity |-> ""]

\* the warning dicts of check_attention: no timestamp and no play_sound
MonitorWarning(type) ==
    [type |-> type, message |-> Message(type), severity |-> Severity(type)]

\* (variant: the warning comes one frame later)
MonitorNoFaceLate(m) ==
    LET count == m.no_face_counter + 1
        warn == count > m.warning_threshold_no_face
    IN  [monitor |-> [m EXCEPT !.no_face_counter = IF warn THEN 0 ELSE count,
                               !.look_away_counter = 0,
                               !.warnings =
                                   IF warn
                                   THEN Append(@, MonitorWarning("no_face"))
                                   ELSE @],
         result |-> [face_detected |-> FALSE, looking_at_screen |-> FALSE,
                     attention_level |-> 0,
                     warning |-> IF warn THEN MonitorWarning("no_face")
                                         ELSE MonitorNone]]

\* check_attention on a frame without a face
MonitorNoFace(m) ==
    LET count == m.no_face_counter + 1
        warn == count >= m.warning_threshold_no_face
    IN  [monitor |-> [m EXCEPT !.no_face_counter = IF warn THEN 0 ELSE count,
                               !.look_away_counter = 0,
                               !.warnings =
                                   IF warn
                                   THEN Append(@, MonitorWarning("no_face"))
                                   ELSE @],
         result |-> [face_detected |-> FALSE, looking_at_screen |-> FALSE,
                     attention_level |-> 0,
                     warning |-> IF warn THEN MonitorWarning("no_face")
                                         ELSE MonitorNone]]

\* (variant: the drowsy flag is not looked at)
MonitorFaceHeadOnly(m, f, is_drowsy) ==
    LET m0 == [m EXCEPT !.no_face_counter = 0]
        quiet == [face_detected |-> TRUE, looking_at_screen |-> FALSE,
                  attention_level |-> 0, warning |-> MonitorNone]
    IN  IF ~f.sleep THEN [monitor |-> m0, result |-> quiet]
        ELSE IF f.tilt # "center" \/ f.nod # "center"
        THEN LET count == m0.look_away_counter + 1
                 warn == count >= m0.warning_threshold_look_away
             IN  [monitor |->
                     [m0 EXCEPT !.look_away_counter = IF warn THEN 0 ELSE count,
                                !.warnings =
                                    IF warn
                                    THEN Append(@, MonitorWarning("look_away"))
                                    ELSE @],
                  result |->
                     [quiet EXCEPT !.warning =
                                       IF warn THEN MonitorWarning("look_away")
                                               ELSE MonitorNone]]
        ELSE [monitor |-> [m0 EXCEPT !.look_away_counter = 0],
              result |-> [quiet EXCEPT !.looking_at_screen = TRUE,
                                       !.attention_level = 100]]

\* check_attention on a frame with a face (is_drowsy: the flag in the first
\* sleep result)
MonitorFace(m, f, is_drowsy) ==
    LET m0 == [m EXCEPT !.no_face_counter = 0]
        quiet == [face_detected |-> TRUE, looking_at_screen |-> FALSE,
                  attention_level |-> 0, warning |-> MonitorNone]
    IN  IF ~f.sleep THEN [monitor |-> m0, result |-> quiet]
        ELSE IF f.tilt # "center" \/ f.nod # "center" \/ is_drowsy
        THEN LET count == m0.look_away_counter + 1
                 warn == count >= m0.warning_threshold_look_away
             IN  [monitor |->
                     [m0 EXCEPT !.look_away_counter = IF warn THEN 0 ELSE count,
                                !.warnings =
                                    IF warn
                                    THEN Append(@, MonitorWarning("look_away"))
                                    ELSE @],
                  result |->
                     [quiet EXCEPT !.warning =
                                       IF warn THEN MonitorWarning("look_away")
                                               ELSE MonitorNone]]
        ELSE [monitor |-> [m0 EXCEPT !.look_away_counter = 0],
              result |-> [quiet EXCEPT !.looking_at_screen = TRUE,
                                       !.attention_level = 100]]

\* (variant: reset keeps the log)
MonitorResetCounters(m) ==
    [m EXCEPT !.no_face_counter = 0, !.look_away_counter = 0]

\* AttentionMonitor.reset
MonitorReset(m) ==
    [m EXCEPT !.no_face_counter = 0, !.look_away_counter = 0,
              !.warnings = <<>>]

\* the objects of the server are not touched by a call on the two classes
ServerUnchanged ==
    UNCHANGED <<active_sessions, attention_warnings, eye_closure_counter, now,
                threads, mood_data>>

\* AttentionMonitor(n, m)
construct(n, m) ==
    /\ monitor' = AttentionMonitor(n, m)
    /\ request' = [op |-> "construct"]
    /\ response' = [kind |-> "construct"]
    /\ ServerUnchanged /\ UNCHANGED detector

\* check_attention(frame): both detectors run on the frame, the sleep
\* detector of the monitor counting the frame when it finds a face
check_attention(f) ==
    LET counter == IF f.sleep
                   THEN CheckDrowsiness(monitor.eye_closure_counter, f.eyes_open)
                   ELSE monitor.eye_closure_counter
        m == [monitor EXCEPT !.eye_closure_counter = counter]
        out == IF f.face THEN MonitorFace(m, f, IsDrowsy(counter))
                         ELSE MonitorNoFace(m)
    IN  /\ f.image = "ok"
        /\ counter <= MaxClosureFrames
        /\ Len(out.monitor.warnings) <= MaxWarnings
        /\ monitor' = out.monitor
        /\ request' = [op |-> "check_attention", frame |-> f]
        /\ response' = [kind |-> "check_attention", result |-> out.result]
        /\ ServerUnchanged /\ UNCHANGED detector

get_warnings ==
    /\ request' = [op |-> "get_warnings"]
    /\ response' = [kind |-> "get_warnings", warnings |-> monitor.warnings]
    /\ ServerUnchanged /\ UNCHANGED <<monitor, detector>>

reset ==
    /\ monitor' = MonitorReset(monitor)
    /\ request' = [op |-> "reset"]
    /\ response' = [kind |-> "reset"]
    /\ ServerUnchanged /\ UNCHANGED detector

-----------------------------------------------------------------------------
(* SleepDetection.check_drowsiness *)

\* the entries of eye_closure_history: 1 for a call with eyes closed
ClosedEntries(history) == Cardinality({i \in DOMAIN history : history[i] = 1})

\* (variant: the oldest entry is dropped one call early)
HistoryShort(history, eyes_open) ==
    LET appended == Append(history, IF ~eyes_open THEN 1 ELSE 0)
    IN  IF Len(appended) >= HistoryWindow THEN Tail(appended) ELSE appended

\* eye_closure_history[face_id] after the call
History(history, eyes_open) ==
    LET appended == Append(history, IF ~eyes_open THEN 1 ELSE 0)
    IN  IF Len(appended) > HistoryWindow THEN Tail(appended) ELSE appended

\* drowsiness_level
DrowsinessLevel(is_drowsy, is_sleepy) ==
    IF is_sleepy THEN "sleepy" ELSE IF is_drowsy THEN "drowsy" ELSE "awake"

\* the detector and the returned dict after check_drowsiness(face_id,
\* eyes_open, ear).  closure_ratio is kept as the two numbers it divides.
DrowsinessOutcome(d, face_id, eyes_open, ear) ==
    LET known == face_id \in DOMAIN d.eye_closure_counter
        counter == CheckDrowsiness(IF known THEN d.eye_closure_counter[face_id]
                                            ELSE 0, eyes_open)
        history == History(IF known THEN d.eye_closure_history[face_id]
                                    ELSE <<>>, eyes_open)
        is_drowsy == IsDrowsy(counter)
        is_sleepy == 2 * ClosedEntries(history) > Len(history)
    IN  [detector |->
            [eye_closure_counter |-> Put(d.eye_closure_counter, face_id, counter),
             eye_closure_history |-> Put(d.eye_closure_history, face_id, history)],
         result |-> [is_drowsy |-> is_drowsy,
                     is_sleepy |-> is_sleepy,
                     drowsiness_level |-> DrowsinessLevel(is_drowsy, is_sleepy),
                     closure_frames |-> counter,
                     closure_ratio |-> [closed |-> ClosedEntries(history),
                                        of |-> Len(history)],
                     ear |-> ear]]

\* the number of runs of equal entries in a history
Runs(history) ==
    IF history = <<>> THEN 0
    ELSE 1 + Cardinality({i \in 1..(Len(history) - 1) :
                             history[i] # history[i + 1]})

\* the calls followed: histories of at most MaxRuns runs, at most one face
\* with more than ShortHistory entries, counters up to MaxClosedRun
DetectorWithinBounds(d) ==
    /\ \A id \in DOMAIN d.eye_closure_history :
          /\ Runs(d.eye_closure_history[id]) <= MaxRuns
          /\ d.eye_closure_counter[id] <= MaxClosedRun
    /\ \A id, other \in DOMAIN d.eye_closure_history :
          id # other =>
             \/ Len(d.eye_closure_history[id]) <= ShortHistory
             \/ Len(d.eye_closure_history[other]) <= ShortHistory

check_drowsiness(face_id, eyes_open, ear) ==
    LET out == DrowsinessOutcome(detector, face_id, eyes_open, ear)
    IN  /\ DetectorWithinBounds(out.detector)
        /\ detector' = out.detector
        /\ request' = [op |-> "check_drowsiness", face_id |-> face_id,
                       eyes_open |-> eyes_open, ear |-> ear]
        /\ response' = [kind |-> "check_drowsiness", result |-> out.result]
        /\ ServerUnchanged /\ UNCHANGED monitor

-----------------------------------------------------------------------------
(* Specifications.  The clock takes its readings from a set of instants,    *)
(* given as offsets from ClockStart.                                        *)

At(offsets) == {ClockStart + d : d \in offsets}

StartIn(instants) ==
    \E sid \in SessionIds, t \in instants : start_attention_monitoring(sid, t)

StopIn(instants) ==
    \E sid \in SessionIds, t \in instants : stop_attention_monitoring(sid, t)

ProcessIn(frames, instants, noFaceCap, lookAwayCap) ==
    \E sid \in SessionIds, f \in frames, tc, ts \in instants :
      \E tw \in {tc, ts} :
        process_attention(sid, f, tc, tw, ts, noFaceCap, lookAwayCap)

\* Spec: eye closure against the clock, on instants that tell 2.9 s from
\* 3.0 s and 3.0 s from 5.0 s; both streaks capped
Instants == At({0, 29, 30, 35, 60, 80})

Start == StartIn(Instants)
Stop == StopIn(Instants)
Process == ProcessIn(TimingFrames, Instants, MaxNoFaceRun, MaxLookAwayRun)

Next == Start \/ Process \/ Stop

Spec == Init /\ [][Next]_vars

\* SpecNoFace: no-face streaks of any length, look-away runs capped
NoFaceFrames ==
    {NoFace, NoFaceEyesOpen, NoFaceEyesClosed, FaceOnly, Attentive, Closed}
NoFaceInstants == At({0, 30})

StartNoFace == StartIn(NoFaceInstants)
StopNoFace == StopIn(NoFaceInstants)
ProcessNoFace ==
    ProcessIn(NoFaceFrames, NoFaceInstants, NoFaceLimit, MaxLookAwayRun)

NextNoFace == StartNoFace \/ ProcessNoFace \/ StopNoFace

SpecNoFace == Init /\ [][NextNoFace]_vars

\* SpecLookAway: look-away streaks of any length, no-face runs capped
LookAwayFrames ==
    {NoFace, FaceOnly, Attentive, LeftOpen, LeftClosed, FlagClosedEarOpen}
LookAwayInstants == At({0, 30})

StartLookAway == StartIn(LookAwayInstants)
StopLookAway == StopIn(LookAwayInstants)
ProcessLookAway ==
    ProcessIn(LookAwayFrames, LookAwayInstants, MaxNoFaceRun, LookAwayLimit)

NextLookAway == StartLookAway \/ ProcessLookAway \/ StopLookAway

SpecLookAway == Init /\ [][NextLookAway]_vars

\* SpecPolicy: the eye and head signals over their whole ranges, on one
\* clock reading, both streaks capped
EyeCounts == {NoVal, 0, 1, 2, 3}
AreaRatios == {NoVal, 24, 25}
EarValues == {NoVal, 19, 20, 25, 26, 30, 31}
Tilts == {"left", "center"}

PolicyFrames ==
    {Frame("ok", face, TRUE, eyes_open, eyes_detected, eye_area_ratio, avg_ear,
           tilt, "center") :
        face \in {TRUE}, eyes_open \in BOOLEAN, eyes_detected \in EyeCounts,
        eye_area_ratio \in AreaRatios, avg_ear \in EarValues, tilt \in Tilts}
    \cup {NoFace, NoFaceEyesOpen, FaceOnly, NodDown, NodDownClosed}
PolicyInstants == At({0})

StartPolicy == StartIn(PolicyInstants)
ProcessPolicy ==
    ProcessIn(PolicyFrames, PolicyInstants, MaxNoFaceRun, MaxNoFaceRun)

NextPolicy == StartPolicy \/ ProcessPolicy

SpecPolicy == Init /\ [][NextPolicy]_vars

\* SpecFamilies: both start endpoints on one identifier, no-face streaks of
\* any length
FamilyFrames == {NoFace, FaceOnly, Closed, BadImage}
FamilyInstants == At({0, 30})

StartFamilies == StartIn(FamilyInstants)
StartMood ==
    \E sid \in SessionIds, t \in FamilyInstants : start_mood_detection(sid, t)
StopFamilies == StopIn(FamilyInstants)
ProcessFamilies ==
    ProcessIn(FamilyFrames, FamilyInstants, NoFaceLimit + 1, MaxLookAwayRun)

NextFamilies == StartFamilies \/ StartMood \/ ProcessFamilies \/ StopFamilies

SpecFamilies == Init /\ [][NextFamilies]_vars

\* SpecStreaks: both streaks of any length, on two clock readings 3.0 s apart
StreakFrames == {NoFace, LeftClosed}
StreakInstants == At({0, 30})

StartStreaks == StartIn(StreakInstants)
StopStreaks == StopIn(StreakInstants)
ProcessStreaks ==
    ProcessIn(StreakFrames, StreakInstants, NoFaceLimit + 1, LookAwayLimit + 1)

NextStreaks == StartStreaks \/ ProcessStreaks \/ StopStreaks

SpecStreaks == Init /\ [][NextStreaks]_vars

\* SpecSleepy: one started session that keeps receiving face frames whose
\* eyes the first eye check judges closed, each 1.0 s or 3.0 s after the one
\* before, for 12 s.  The client keeps posting and the clock keeps running,
\* so the next call is not put off for ever while there is time left.
SleepyFrames == {Closed, LeftClosed, FlagOpenEarClosed}
SleepyTicks == {10, 30}
SleepyHorizon == ClockStart + 4 * EYE_CLOSURE_THRESHOLD_MIN

StartSleepy ==
    /\ active_sessions = <<>>
    /\ StartIn(At({0}))

ProcessSleepy ==
    \E sid \in SessionIds, f \in SleepyFrames, d \in SleepyTicks :
        /\ sid \in DOMAIN active_sessions
        /\ now + d <= SleepyHorizon
        /\ process_attention(sid, f, now + d, now + d, now + d,
                             NoFaceLimit, LookAwayLimit)

NextSleepy == StartSleepy \/ ProcessSleepy

SpecSleepy == Init /\ [][NextSleepy]_vars /\ WF_vars(NextSleepy)

\* SpecMood: the start and process calls of both endpoint families on one
\* identifier, on two clock readings 3.0 s apart
MoodFrames == {NoFace, FaceOnly, Attentive, Closed, BadImage}
MoodInstants == At({0, 30})

StartMoodSession ==
    \E sid \in SessionIds, t \in MoodInstants : start_mood_detection(sid, t)

ProcessMood ==
    \E sid \in SessionIds, f \in MoodFrames, t \in MoodInstants :
      \E emotion \in Emotions \cup {"none"} :
        process_mood(sid, f, emotion, t)

StopMood == \E sid \in SessionIds : stop_mood_detection(sid)

StartAttentionSession == StartIn(MoodInstants)

ProcessAttentionSession ==
    \E sid \in SessionIds, f \in MoodFrames, t \in MoodInstants :
        process_attention(sid, f, t, t, t, MaxNoFaceRun, MaxLookAwayRun)

NextMood ==
    \/ StartMoodSession \/ ProcessMood \/ StopMood
    \/ StartAttentionSession \/ ProcessAttentionSession

SpecMood == Init /\ [][NextMood]_vars

\* SpecAgree: the two process endpoints on the same frames, for one
\* identifier
\* flag closed, two eyes of normal area, an EAR of 0.0
EarZero == Frame("ok", TRUE, TRUE, FALSE, 2, 30, 0, "center", "center")
AgreeFrames == {NoFace, FaceOnly, Attentive, LeftOpen, Closed,
                FlagClosedEarOpen, FlagOpenEarClosed, EarZero}
AgreeInstants == At({0})

StartAgree == StartIn(AgreeInstants)

ProcessMoodAgree ==
    \E sid \in SessionIds, f \in AgreeFrames, t \in AgreeInstants :
      \E emotion \in Emotions \cup {"none"} :
        process_mood(sid, f, emotion, t)

ProcessAttentionAgree ==
    \E sid \in SessionIds, f \in AgreeFrames, t \in AgreeInstants :
        process_attention(sid, f, t, t, t, MaxNoFaceRun, MaxLookAwayRun)

NextAgree == StartAgree \/ ProcessMoodAgree \/ ProcessAttentionAgree

SpecAgree == Init /\ [][NextAgree]_vars

\* SpecMonitor: one AttentionMonitor, built with the default thresholds or
\* with small ones
NoFaceThresholds == {2, 60}
LookAwayThresholds == {2, 45}
MonitorFrames == {NoFace, NoFaceEyesClosed, FaceOnly, Attentive, LeftOpen,
                  FlagClosedEarOpen}

Construct ==
    \E n \in NoFaceThresholds, m \in LookAwayThresholds : construct(n, m)

CheckAttention == \E f \in MonitorFrames : check_attention(f)

NextMonitor == Construct \/ CheckAttention \/ get_warnings \/ reset

SpecMonitor == Init /\ [][NextMonitor]_vars

\* SpecDrowsy: one SleepDetection called for two face ids
FaceIds == {"face_0", "face_1"}
EarArguments == {None, 19}

CheckDrowsinessCall ==
    \E face_id \in FaceIds, eyes_open \in BOOLEAN, ear \in EarArguments :
        check_drowsiness(face_id, eyes_open, ear)

NextDrowsy == CheckDrowsinessCall

SpecDrowsy == Init /\ [][NextDrowsy]_vars

\* SpecEstimator: the frames SleepDetection.process_frame produces.  Its
\* own cascade has found a face; the face detector of the server may or may
\* not have.  detect_eyes_opencv returns the number of eyes found and
\* eyes_open = (that number >= 2), with neither eye_area_ratio nor avg_ear;
\* detect_eyes_dlib returns avg_ear and eyes_open = (avg_ear > 0.25), with
\* neither eyes_detected nor eye_area_ratio.
DetectEyesOpenCV(face, eye_count, tilt, nod) ==
    Frame("ok", face, TRUE, eye_count >= 2, eye_count, NoVal, NoVal, tilt, nod)

DetectEyesDlib(face, avg_ear, tilt, nod) ==
    Frame("ok", face, TRUE, avg_ear > EarOpenThreshold, NoVal, NoVal, avg_ear,
          tilt, nod)

EstimatorFrames ==
    {DetectEyesOpenCV(face, n, tilt, "center") :
        face \in BOOLEAN, n \in 0..3, tilt \in {"center", "left"}}
    \cup {DetectEyesDlib(face, ear, tilt, "center") :
        face \in BOOLEAN, ear \in {20, 25, 26, 31}, tilt \in {"center", "left"}}
    \cup {NoFace}
EstimatorInstants == At({0, 30})

StartEstimator == StartIn(EstimatorInstants)
StopEstimator == StopIn(EstimatorInstants)
ProcessEstimator ==
    \E sid \in SessionIds, f \in EstimatorFrames, t \in EstimatorInstants :
        process_attention(sid, f, t, t, t, MaxNoFaceRun, MaxLookAwayRun)

NextEstimator == StartEstimator \/ ProcessEstimator \/ StopEstimator

SpecEstimator == Init /\ [][NextEstimator]_vars

\* SpecPair: two identifiers served by the one sleep detector, on one clock
\* reading, both streaks capped
SessionPair == {"default", "second"}
PairFrames == {NoFace, Attentive, Closed, FlagClosedEarOpen}
PairInstants == At({0})

StartPair ==
    \E sid \in SessionPair, t \in PairInstants :
        start_attention_monitoring(sid, t)
StopPair ==
    \E sid \in SessionPair, t \in PairInstants :
        stop_attention_monitoring(sid, t)
ProcessPair ==
    \E sid \in SessionPair, f \in PairFrames, t \in PairInstants :
        process_attention(sid, f, t, t, t, MaxNoFaceRun, MaxLookAwayRun)

NextPair == StartPair \/ ProcessPair \/ StopPair

SpecPair == Init /\ [][NextPair]_vars

\* SpecThreads: no-face frames for one started session, served by two
\* threads at once; the session is started while no call is in flight
ThreadInstants == At({0})

StartThreads ==
    /\ \A th \in Threads : threads[th].pc = "idle"
    /\ "default" \notin DOMAIN active_sessions
    /\ \E t \in ThreadInstants : start_attention_monitoring("default", t)
ReceiveThreads == \E th \in Threads : Receive(th, "default")
LoadThreads == \E th \in Threads : LoadCount(th)
StoreThreads == \E th \in Threads : StoreCount(th)
ReadThreads == \E th \in Threads : ReadCount(th)
WarnThreads == \E th \in Threads, t \in ThreadInstants : AppendWarning(th, t)
ResetThreads == \E th \in Threads : ResetCount(th)
RespondThreads == \E th \in Threads : Respond(th)

NextThreads ==
    \/ StartThreads \/ ReceiveThreads \/ LoadThreads \/ StoreThreads
    \/ ReadThreads \/ WarnThreads \/ ResetThreads \/ RespondThreads

SpecThreads == Init /\ [][NextThreads]_vars

\* SpecRace: as SpecThreads, with stop calls arriving while process calls
\* are in flight.  A stop call runs between two statements of a process
\* call; a session is started while no call is in flight.
StopRace ==
    \E t \in ThreadInstants : stop_attention_monitoring("default", t)
FailThreads == \E th \in Threads : Fail(th)

NextRace ==
    \/ StartThreads \/ ReceiveThreads \/ LoadThreads \/ StoreThreads
    \/ ReadThreads \/ WarnThreads \/ ResetThreads \/ RespondThreads
    \/ StopRace \/ FailThreads

SpecRace == Init /\ [][NextRace]_vars

-----------------------------------------------------------------------------
(* Vocabulary of the properties.  A step of process_attention is seen in    *)
(* the state after it: request names the call and its frame, response what  *)
(* it returned.  In an action formula the primed request is the call that   *)
(* made the step and the unprimed session record is the one it found.       *)

Live(sid) == sid \in DOMAIN active_sessions

\* the call handled last was a process call for sid that returned success
Processed(sid) ==
    /\ request.op = "process" /\ request.sid = sid
    /\ response.status = "success"

\* that call's frame had a face and an eye / head-pose result
EyeFrame(f) == f.image = "ok" /\ f.face /\ f.sleep

\* a set eye-closure start time
Unset(t) == t = Missing \/ t = None

\* the closure start the call works with: the stored one, or its own
\* current_time when none is stored
RunStart(s, tc) ==
    IF Unset(s.eye_closure_start_time) THEN tc ELSE s.eye_closure_start_time

Sleepiness(list) == {i \in DOMAIN list : list[i].type = "sleepiness"}

\* the warnings a step appended to a list
Appended(before, after) == SubSeq(after, Len(before) + 1, Len(after))

StoredWarnings(sid) ==
    IF sid \in DOMAIN attention_warnings THEN attention_warnings[sid] ELSE <<>>

-----------------------------------------------------------------------------
(* C1.  No-face debounce.  For a session in active_sessions, a frame with   *)
(* no face that follows fewer than 60 consecutive no-face frames returns no *)
(* warning and lengthens the streak by one; the frame that follows 60 of    *)
(* them (the 61st) returns a no_face warning, stores exactly that one       *)
(* warning in both lists and leaves the streak at 0.                        *)

NoFaceStep(sid) ==
    /\ Live(sid)
    /\ Processed(sid)'
    /\ request'.frame.image = "ok" /\ ~request'.frame.face

C1_NoFaceDebounce ==
    [][\A sid \in SessionIds :
        NoFaceStep(sid) =>
            LET before == active_sessions[sid]
                after == active_sessions'[sid]
                stored == Appended(StoredWarnings(sid), StoredWarnings(sid)')
                kept == Appended(before.warnings, after.warnings)
            IN  IF before.no_face_count < NoFaceLimit
                THEN /\ response'.warning = NoWarning
                     /\ after.no_face_count = before.no_face_count + 1
                     /\ stored = <<>> /\ kept = <<>>
                ELSE /\ response'.warning.type = "no_face"
                     /\ after.no_face_count = 0
                     /\ stored = <<response'.warning>>
                     /\ kept = <<response'.warning>>]_vars

\* a no_face warning was just returned and the streak is back at 0
C1_Witness ==
    \E sid \in SessionIds :
        /\ Live(sid) /\ Processed(sid)
        /\ ~request.frame.face
        /\ response.warning.type = "no_face"
        /\ active_sessions[sid].no_face_count = 0

-----------------------------------------------------------------------------
(* C2.  Look-away debounce.                                                 *)

\* a process call on a frame with a face and an eye / head-pose result, for
\* a session in active_sessions
EyeStep(sid) ==
    /\ Live(sid)
    /\ Processed(sid)'
    /\ EyeFrame(request'.frame)

\* C2 as claimed: a frame with head tilt left that follows fewer than 45
\* look-away frames returns no look_away warning, the one that follows 45 of
\* them (the 46th) returns exactly one look_away warning and resets the
\* streak, and a frame judged looking-at-screen resets the streak and adds
\* one to the focused-frame counter.
C2_AsClaimed ==
    [][\A sid \in SessionIds :
        EyeStep(sid) =>
            LET before == active_sessions[sid]
                after == active_sessions'[sid]
                kept == Appended(before.warnings, after.warnings)
            IN  /\ request'.frame.tilt = "left" =>
                     IF before.look_away_count < LookAwayLimit
                     THEN response'.warning.type # "look_away"
                     ELSE /\ response'.warning.type = "look_away"
                          /\ kept = <<response'.warning>>
                          /\ after.look_away_count = 0
                /\ response'.attention.looking_at_screen =>
                     /\ after.look_away_count = 0
                     /\ after.focus_time = Get(before.focus_time, 0) + 1]_vars

\* C2 as the code has it: the 46th frame returns exactly one warning and
\* resets the streak; the warning is look_away unless the call produced a
\* sleepiness warning, which is then the one returned.  The rest as claimed.
C2_LookAwayDebounce ==
    [][\A sid \in SessionIds :
        EyeStep(sid) =>
            LET before == active_sessions[sid]
                after == active_sessions'[sid]
                kept == Appended(before.warnings, after.warnings)
                tc == request'.tc
                sleepy == /\ ~response'.eyes_open
                          /\ tc - RunStart(before, tc) >= EYE_CLOSURE_THRESHOLD_MIN
                          /\ tc - Get(before.last_warning_time, 0) >= SleepinessCooldown
            IN  /\ request'.frame.tilt = "left" =>
                     IF before.look_away_count < LookAwayLimit
                     THEN /\ response'.warning.type # "look_away"
                          /\ after.look_away_count = before.look_away_count + 1
                     ELSE /\ response'.warning.type =
                                IF sleepy THEN "sleepiness" ELSE "look_away"
                          /\ kept = <<response'.warning>>
                          /\ after.look_away_count = 0
                /\ response'.attention.looking_at_screen =>
                     /\ after.look_away_count = 0
                     /\ after.focus_time = Get(before.focus_time, 0) + 1]_vars

\* a look_away warning was just returned for a frame with head tilt left
C2_Witness ==
    \E sid \in SessionIds :
        /\ Live(sid) /\ Processed(sid)
        /\ EyeFrame(request.frame) /\ request.frame.tilt = "left"
        /\ response.warning.type = "look_away"
        /\ active_sessions[sid].look_away_count = 0
        /\ Get(active_sessions[sid].focus_time, 0) > 0

-----------------------------------------------------------------------------
(* C5 and C6.  The tie-break between a sleepiness and a look_away warning.  *)

\* the call finds the sleepiness-warning condition and the look-away-streak
\* condition both met: eyes judged closed for 3.0 s or more, 5.0 s or more
\* since the last sleepiness warning, and 45 look-away frames before it
BothDue(sid) ==
    /\ EyeStep(sid)
    /\ LET before == active_sessions[sid]
           tc == request'.tc
       IN  /\ ~response'.eyes_open
           /\ tc - RunStart(before, tc) >= EYE_CLOSURE_THRESHOLD_MIN
           /\ tc - Get(before.last_warning_time, 0) >= SleepinessCooldown
           /\ before.look_away_count + 1 > LookAwayLimit

\* C5.  Every process call stores at most one warning, the one it returns;
\* when both conditions are met the returned warning is the sleepiness
\* warning and no look_away warning is stored.
C5_TieBreak ==
    [][\A sid \in SessionIds :
        /\ Processed(sid)' =>
              LET stored == Appended(StoredWarnings(sid), StoredWarnings(sid)')
              IN  /\ Len(stored) <= 1
                  /\ stored = IF response'.warning = NoWarning
                              THEN <<>> ELSE <<response'.warning>>
                  /\ Live(sid) =>
                        Appended(active_sessions[sid].warnings,
                                 active_sessions'[sid].warnings) = stored
        /\ BothDue(sid) => response'.warning.type = "sleepiness"]_vars

\* a sleepiness warning was returned by a call that reset the look-away
\* streak: the streak had passed its limit in the same call
C5_Witness ==
    \E sid \in SessionIds :
        /\ Live(sid) /\ Processed(sid)
        /\ EyeFrame(request.frame)
        /\ response.warning.type = "sleepiness"
        /\ active_sessions[sid].look_away_count = 0

\* C6 as claimed: the suppressed look_away warning leaves the streak at its
\* incremented value.
C6_AsClaimed ==
    [][\A sid \in SessionIds :
        BothDue(sid) =>
            active_sessions'[sid].look_away_count =
                active_sessions[sid].look_away_count + 1]_vars

-----------------------------------------------------------------------------
(* C3.  Eye-closure duration gating.                                        *)

\* a process call on a face frame whose eyes both eye checks of the handler
\* judge closed
ClosedStep(sid) ==
    /\ EyeStep(sid)
    /\ ~response'.eyes_open /\ ~response'.sleepiness.eyes_open

SleepinessReturned == response'.warning.type = "sleepiness"

\* C3 as claimed: in one unbroken run no sleepiness warning below 3.0 s; the
\* first frame at 3.0 s or more returns one and records its time; later
\* frames of the run return one exactly when 5.0 s have passed since the
\* recorded time.  (The run has had its warning when the recorded time lies
\* 3.0 s or more after the start of the run.)
C3_AsClaimed ==
    [][\A sid \in SessionIds :
        ClosedStep(sid) =>
            LET before == active_sessions[sid]
                tc == request'.tc
                started == RunStart(before, tc)
                last == Get(before.last_warning_time, 0)
                warned == last >= started + EYE_CLOSURE_THRESHOLD_MIN
            IN  IF tc - started < EYE_CLOSURE_THRESHOLD_MIN
                THEN ~SleepinessReturned
                ELSE IF ~warned
                THEN /\ SleepinessReturned
                     /\ active_sessions'[sid].last_warning_time = tc
                ELSE SleepinessReturned <=> tc - last >= SleepinessCooldown]_vars

\* C3 as the code has it: a frame of the run returns a sleepiness warning,
\* and records its time, exactly when the closure has lasted 3.0 s or more
\* and 5.0 s or more have passed since the last sleepiness warning recorded
\* for the session, in this run or before it; the warning carries the
\* closure duration.
C3_ClosureGating ==
    [][\A sid \in SessionIds :
        ClosedStep(sid) =>
            LET before == active_sessions[sid]
                after == active_sessions'[sid]
                tc == request'.tc
                started == RunStart(before, tc)
                last == Get(before.last_warning_time, 0)
            IN  /\ after.eye_closure_start_time = started
                /\ SleepinessReturned <=>
                      /\ tc - started >= EYE_CLOSURE_THRESHOLD_MIN
                      /\ tc - last >= SleepinessCooldown
                /\ IF SleepinessReturned
                   THEN /\ after.last_warning_time = tc
                        /\ response'.warning.timestamp = tc
                        /\ response'.warning.closure_duration = tc - started
                   ELSE Get(after.last_warning_time, 0) = last]_vars

\* one run of closed eyes has had its second sleepiness warning
C3_Witness ==
    \E sid \in SessionIds :
        /\ Live(sid) /\ Processed(sid)
        /\ response.warning.type = "sleepiness"
        /\ LET s == active_sessions[sid]
           IN  /\ Len(s.warnings) = 2
               /\ s.warnings[1].type = "sleepiness"
               /\ s.warnings[1].timestamp >= s.eye_closure_start_time
                                                + EYE_CLOSURE_THRESHOLD_MIN
               /\ s.warnings[2].timestamp >= s.warnings[1].timestamp
                                                + SleepinessCooldown

-----------------------------------------------------------------------------
(* C4.  Sleepiness cooldown.                                                *)

Spaced(list) ==
    \A i, j \in Sleepiness(list) :
        i < j => list[j].timestamp - list[i].timestamp >= SleepinessCooldown

\* C4 as claimed: any two sleepiness warnings stored for a session
\* identifier, across start calls, are 5.0 s or more apart.
C4_AsClaimed == \A sid \in SessionIds : Spaced(StoredWarnings(sid))

\* C4 as the code has it: any two sleepiness warnings emitted for a session
\* since its latest start call are 5.0 s or more apart.
C4_Cooldown ==
    \A sid \in SessionIds : Live(sid) => Spaced(active_sessions[sid].warnings)

\* two sleepiness warnings since the latest start
C4_Witness ==
    \E sid \in SessionIds :
        /\ Live(sid)
        /\ Cardinality(Sleepiness(active_sessions[sid].warnings)) = 2

-----------------------------------------------------------------------------
(* C7, C8.  What breaks a streak or a closure run.                          *)

\* C7 as claimed: after a process call on a frame with no face the look-away
\* streak is 0 and the closure start time is unset; after one on a frame
\* with a face the no-face streak is 0.
C7_AsClaimed ==
    \A sid \in SessionIds :
        (Live(sid) /\ Processed(sid)) =>
            LET s == active_sessions[sid]
            IN  IF request.frame.face
                THEN s.no_face_count = 0
                ELSE s.look_away_count = 0 /\ Unset(s.eye_closure_start_time)

\* C8 as claimed: the closure start time is set only while every frame
\* processed since was an eyes-closed frame, so after a call on any other
\* frame (no face, no eye / head-pose result, eyes judged open) it is unset.
C8_AsClaimed ==
    \A sid \in SessionIds :
        (Live(sid) /\ Processed(sid)) =>
            \/ EyeFrame(request.frame) /\ ~response.eyes_open
            \/ Unset(active_sessions[sid].eye_closure_start_time)

-----------------------------------------------------------------------------
(* C9.  Open-eye reset.  A process call on a face frame that either eye     *)
(* check of the handler judges open leaves the closure start time unset and *)
(* reports closure_duration 0 and is_sleepy false, whatever the closure     *)
(* before it; a frame both checks judge closed, found with no start time    *)
(* set, starts a run at its own current_time.                               *)

C9_OpenEyeReset ==
    [][\A sid \in SessionIds :
        EyeStep(sid) =>
            LET before == active_sessions[sid]
                after == active_sessions'[sid]
            IN  IF response'.eyes_open \/ response'.sleepiness.eyes_open
                THEN /\ after.eye_closure_start_time = None
                     /\ response'.sleepiness.closure_duration = 0
                     /\ ~response'.sleepiness.is_sleepy
                ELSE Unset(before.eye_closure_start_time) =>
                        after.eye_closure_start_time = request'.tc]_vars

\* eyes judged open right after a closure that had lasted 3.0 s or more
C9_Witness ==
    \E sid \in SessionIds :
        /\ Live(sid) /\ Processed(sid)
        /\ EyeFrame(request.frame) /\ response.eyes_open
        /\ active_sessions[sid].eye_closure_start_time = None
        /\ Len(active_sessions[sid].warnings) > 0
        /\ active_sessions[sid].last_warning_time = request.tc

-----------------------------------------------------------------------------
(* C10.  Eye-open policy from eye count and area ratio.                     *)

\* the call handled last was a process call on a face frame with an eye
\* result, for a session in active_sessions
Judged(sid) == Live(sid) /\ Processed(sid) /\ EyeFrame(request.frame)

-----------------------------------------------------------------------------
(* C11.  Landmark-based eye-open policy.                                    *)

\* the eye data of the frame has the shape detect_eyes_dlib returns: an
\* avg_ear, eyes_open = avg_ear > EAR_THRESHOLD, no eye count, no area ratio
LandmarkFrame(f) ==
    /\ EyeFrame(f)
    /\ f.avg_ear # NoVal
    /\ f.eyes_detected = NoVal
    /\ f.eye_area_ratio = NoVal
    /\ f.eyes_open = (f.avg_ear > EarOpenThreshold)

\* C11 as claimed: when the estimator supplies an EAR instead of eye count
\* and area ratio, the eyes are judged open if and only if EAR > 0.25.
C11_AsClaimed ==
    \A sid \in SessionIds :
        (Live(sid) /\ Processed(sid) /\ LandmarkFrame(request.frame))
        => response.eyes_open = (request.frame.avg_ear > EarOpenThreshold)

-----------------------------------------------------------------------------
(* C12.  Attention score.                                                   *)

\* the score as the claim writes it, from the verdict of the first eye check
ClaimedScore(eyes_open, f) ==
    LET sum == 30 + (IF eyes_open THEN 40 ELSE 0 - 20)
                  + (IF f.tilt = "center" /\ f.nod = "center" THEN 30 ELSE 0 - 15)
                  + (IF f.avg_ear = NoVal THEN 0
                     ELSE IF f.avg_ear > 30 THEN 10
                     ELSE IF f.avg_ear < 20 THEN 0 - 10 ELSE 0)
    IN  IF sum < 0 THEN 0 ELSE IF sum > 100 THEN 100 ELSE sum

\* C12: on a face frame with an eye/head-pose result the reported attention
\* level is clamp(30 + (40 | -20) + (30 | -15) + (10 | -10 | 0), 0, 100), so
\* within [0,100]; on a no-face frame it is 0.
C12_AttentionScore ==
    \A sid \in SessionIds :
        Processed(sid) =>
            LET f == request.frame
                level == response.attention.attention_level
            IN  /\ EyeFrame(f) => level = ClaimedScore(response.eyes_open, f)
                /\ level >= 0 /\ level <= 100
                /\ ~f.face => level = 0

\* eyes open, head centered, EAR above 0.3: the sum is 110 and 100 is reported
C12_Witness ==
    \E sid \in SessionIds :
        /\ Processed(sid)
        /\ EyeFrame(request.frame)
        /\ response.eyes_open
        /\ request.frame.tilt = "center" /\ request.frame.nod = "center"
        /\ request.frame.avg_ear # NoVal /\ request.frame.avg_ear > 30
        /\ response.attention.attention_level = 100

-----------------------------------------------------------------------------
(* C13.  Looking at screen.                                                 *)

\* tilt and nod are center, the eyes are judged open, the score is >= 70
HeadEyesScore ==
    /\ request.frame.tilt = "center"
    /\ request.frame.nod = "center"
    /\ response.eyes_open
    /\ response.attention.attention_level >= 70

-----------------------------------------------------------------------------
(* C15.  Lazy session creation.                                             *)

\* C15 as claimed: a process call with a decodable frame for an identifier
\* that was never started creates the session's state and processes the
\* frame; it never fails because the session is unknown.  (So after any
\* process call with a decodable frame the call has succeeded and the
\* identifier has a session.)
C15_AsClaimed ==
    \A sid \in SessionIds :
        (/\ request.op = "process"
         /\ request.sid = sid
         /\ request.frame.image = "ok")
        => response.status = "success" /\ Live(sid)

-----------------------------------------------------------------------------
(* C17.  Invalid frame.                                                     *)

\* C17: a process call whose image is missing or cannot be decoded returns
\* an error and no warning, and leaves the sessions, the warning lists and
\* the drowsiness tracker as they were.
C17_InvalidFrame ==
    [][(request'.op = "process" /\ request'.frame.image # "ok")
       => /\ response'.status = "error"
          /\ response'.code = 400
          /\ UNCHANGED <<active_sessions, attention_warnings,
                         eye_closure_counter>>]_vars

\* an undecodable frame was refused while a session with a running closure
\* and a non-zero tracker was live
C17_Witness ==
    \E sid \in SessionIds :
        /\ Live(sid)
        /\ request.op = "process" /\ request.sid = sid
        /\ request.frame.image # "ok"
        /\ response.status = "error"
        /\ ~Unset(active_sessions[sid].eye_closure_start_time)
        /\ active_sessions[sid].look_away_count > 0

-----------------------------------------------------------------------------
(* C16.  stop returns a summary and removes the session.                    *)

\* the identifier has a record that start_attention_monitoring stored
AttentionSession(sid) == Live(sid) /\ active_sessions[sid].type = "attention"

\* C16 as claimed: after stop the identifier has no session state and no
\* stored warning list, and a stop on an identifier with no attention
\* session returns total_warnings = 0, an empty warnings list and
\* session_duration = 0.
C16_AsClaimed ==
    [][\A sid \in SessionIds :
          (request'.op = "stop" /\ request'.sid = sid)
          => /\ sid \notin DOMAIN active_sessions'
             /\ sid \notin DOMAIN attention_warnings'
             /\ ~AttentionSession(sid)
                => /\ response'.total_warnings = 0
                   /\ response'.warnings = <<>>
                   /\ response'.session_duration = 0]_vars

-----------------------------------------------------------------------------
(* C18.  Failure atomicity.                                                 *)

\* C18 as claimed: a process call that ends in an error response leaves the
\* session records and the stored warning lists exactly as they were.
C18_AsClaimed ==
    [][(request'.op = "process" /\ response'.status = "error")
       => UNCHANGED <<active_sessions, attention_warnings>>]_vars

-----------------------------------------------------------------------------
(* C14.  Independence across sessions.                                      *)

\* what a process call for sid on frame f at time t returns and leaves for
\* sid, when it finds the two maps and the tracker as given
CallResult(sessions, warns, counter, sid, f, t) ==
    LET out == ProcessOutcome(sessions, warns, sid, f,
                              IsDrowsy(Tracked(counter, f)), t, t, t)
    IN  [response |-> out.response,
         session |-> IF sid \in DOMAIN out.sessions
                     THEN <<out.sessions[sid]>> ELSE <<>>,
         warnings |-> IF sid \in DOMAIN out.warns
                      THEN <<out.warns[sid]>> ELSE <<>>]

-----------------------------------------------------------------------------
(* C19.  No shared mutable state across sessions.                           *)

\* the call runs check_drowsiness, which stores eye_closure_counter['face_0']
WritesTracker(r) ==
    r.op = "process" /\ Decoded(r.frame) /\ r.frame.sleep

\* check_drowsiness increments the stored count: it reads what is there
ReadsTracker(r) == WritesTracker(r) /\ ~r.frame.eyes_open

\* C19 as claimed: no state written while processing a frame of one session
\* is read while processing a frame of another.  (So a call that reads the
\* drowsiness tracker right after a call that wrote it is for the same
\* identifier.)
C19_AsClaimed ==
    [][(WritesTracker(request) /\ ReadsTracker(request'))
       => request'.sid = request.sid]_vars

-----------------------------------------------------------------------------
(* C20.  Per-session serialization.                                         *)

\* C20 as claimed: process calls on one session never interleave, so the
\* read-modify-write of the no-face streak is atomic and no update is lost:
\* every call's increment leaves the streak one above what it was when the
\* increment was stored, and a warning is appended when the stored streak
\* is exactly 61 (one warning for every 61 calls).
C20_AsClaimed ==
    [][\A th \in Threads :
          /\ (threads[th].pc = "store" /\ threads'[th].pc = "read")
             => active_sessions'[threads[th].sid].no_face_count
                = active_sessions[threads[th].sid].no_face_count + 1
          /\ (threads[th].pc = "warn" /\ threads'[th].pc = "reset")
             => active_sessions[threads[th].sid].no_face_count
                = NoFaceLimit + 1]_vars

-----------------------------------------------------------------------------
(* C21.  Streak bounds.                                                     *)

\* C21.  After every process call on a session started for attention
\* monitoring the no-face streak lies in 0..60 and the look-away streak in
\* 0..45; a call that returns a no_face warning found the streak at 60 (it
\* is the 61st of its frames) and one that returns a look_away warning found
\* the streak at 45 (it is the 46th).
C21_StreakBounds ==
    [][\A sid \in SessionIds :
        (AttentionSession(sid) /\ Processed(sid)') =>
            LET before == active_sessions[sid]
                after == active_sessions'[sid]
            IN  /\ after.no_face_count \in 0..NoFaceLimit
                /\ after.look_away_count \in 0..LookAwayLimit
                /\ response'.warning.type = "no_face"
                      => before.no_face_count = NoFaceLimit
                /\ response'.warning.type = "look_away"
                      => before.look_away_count = LookAwayLimit]_vars

\* both streaks stand at their limits after a call: 45 look-away frames, then
\* 60 frames without a face
C21_Witness ==
    \E sid \in SessionIds :
        /\ AttentionSession(sid) /\ Processed(sid)
        /\ active_sessions[sid].no_face_count = NoFaceLimit
        /\ active_sessions[sid].look_away_count = LookAwayLimit

-----------------------------------------------------------------------------
(* C22.  Warning payloads.                                                  *)

\* the message texts the claim gives
ClaimedMessage(type) ==
    CASE type = "no_face" ->
           "You are not visible on screen. Please return to your seat."
      [] type = "look_away" ->
           "Please focus on the screen and pay attention to the class."
      [] type = "sleepiness" ->
           "You appear to be sleepy! Please open your eyes and stay alert."

\* every warning a process call has returned or stored
Emitted ==
    (IF response.kind = "process" /\ response.status = "success"
        /\ response.warning # NoWarning
     THEN {response.warning} ELSE {})
    \cup UNION {{attention_warnings[sid][i] :
                    i \in DOMAIN attention_warnings[sid]} :
                sid \in DOMAIN attention_warnings}
    \cup UNION {{active_sessions[sid].warnings[i] :
                    i \in DOMAIN active_sessions[sid].warnings} :
                sid \in DOMAIN active_sessions}

\* C22 as claimed: every emitted warning carries exactly the message text
\* of its type, as the claim gives it, and the severity of its type, a
\* sleepiness warning with the play-sound flag set.
C22_AsClaimed ==
    \A w \in Emitted :
        /\ w.message = ClaimedMessage(w.type)
        /\ w.severity = (IF w.type = "look_away" THEN "medium" ELSE "high")
        /\ w.type = "sleepiness" => w.play_sound = "True"

\* C22 as the code has it: every emitted warning is of one of the three
\* types and carries the fixed text of its type, which is the claimed text
\* behind the prefix "<U+26A0 U+FE0F> Warning: " (no_face, look_away) or
\* "<U+1F634> Warning: " (sleepiness); no_face is of high severity and has
\* no play-sound flag, look_away is of medium severity with the flag False,
\* sleepiness of high severity with the flag True.
C22_WarningPayloads ==
    \A w \in Emitted :
        \/ /\ w.type = "no_face"
           /\ w.message =
                 "<U+26A0 U+FE0F> Warning: You are not visible on screen. Please return to your seat."
           /\ w.severity = "high" /\ w.play_sound = "absent"
        \/ /\ w.type = "look_away"
           /\ w.message =
                 "<U+26A0 U+FE0F> Warning: Please focus on the screen and pay attention to the class."
           /\ w.severity = "medium" /\ w.play_sound = "False"
        \/ /\ w.type = "sleepiness"
           /\ w.message =
                 "<U+1F634> Warning: You appear to be sleepy! Please open your eyes and stay alert."
           /\ w.severity = "high" /\ w.play_sound = "True"

\* a no_face warning is stored and a look_away warning was just returned
C22_Witness ==
    /\ \E w \in Emitted : w.type = "no_face"
    /\ response.kind = "process" /\ response.status = "success"
    /\ response.warning.type = "look_away"

-----------------------------------------------------------------------------
(* C24.  Reported sleepiness status.                                        *)

\* a process call, for a session in active_sessions, whose sleepiness
\* status reports the eyes closed and which leaves a closure start time set
ClosedStatusStep(sid) ==
    /\ Live(sid)
    /\ Processed(sid)'
    /\ request'.frame.sleep
    /\ ~response'.sleepiness.eyes_open
    /\ ~Unset(active_sessions'[sid].eye_closure_start_time)

\* C24.  Such a call reports as closure duration the time from the closure
\* start to the moment the status is built (the last clock reading of the
\* call, which is now after it), and is_sleepy = true exactly
\* when that duration is 3.0 s or more, whatever warning the call returns.
C24_SleepinessStatus ==
    [][\A sid \in SessionIds :
        ClosedStatusStep(sid) =>
            LET duration == now' - active_sessions'[sid].eye_closure_start_time
                status == response'.sleepiness
            IN  /\ status.closure_duration = duration
                /\ status.is_sleepy <=> duration >= EYE_CLOSURE_THRESHOLD_MIN]_vars

\* is_sleepy was reported by a call that returned no sleepiness warning,
\* less than 5.0 s after the last one
C24_Witness ==
    \E sid \in SessionIds :
        /\ Live(sid) /\ Processed(sid)
        /\ request.frame.sleep
        /\ ~response.sleepiness.eyes_open
        /\ response.sleepiness.is_sleepy
        /\ response.warning.type # "sleepiness"
        /\ request.tc - active_sessions[sid].last_warning_time < SleepinessCooldown

-----------------------------------------------------------------------------
(* C25.  Sleepiness liveness.                                               *)

\* a sleepiness warning has been emitted for sid
Warned(sid) == Sleepiness(StoredWarnings(sid)) # {}

-----------------------------------------------------------------------------
(* C23.  Start-created sessions are processable.                            *)

\* the record of sid was stored by the start call of the family
Started(sid, family) ==
    /\ Live(sid)
    /\ active_sessions[sid].type = family
    /\ active_sessions[sid].started_at # Missing

\* C23 as claimed: on a record stored by start, of either family, every
\* process call of the same family with a decodable frame returns without an
\* error response, eyes open or closed.
C23_AsClaimed ==
    [][\A sid \in SessionIds :
        (/\ request'.op \in {"process", "mood_process"}
         /\ request'.sid = sid
         /\ Decoded(request'.frame)
         /\ \/ Started(sid, "attention") /\ request'.op = "process"
            \/ Started(sid, "mood") /\ request'.op = "mood_process")
        => response'.status # "error"]_vars

-----------------------------------------------------------------------------
(* C26 - C28.  AttentionMonitor.                                            *)

\* a check_attention call on the monitor
Checked == request'.op = "check_attention"

\* C26.  With N = warning_threshold_no_face (N >= 1): a frame without a face
\* that finds no_face_counter below N - 1 returns no warning and adds one to
\* it, so the first N - 1 frames of a run return none; the frame that finds
\* it at N - 1 (the Nth of the run) returns a no_face warning, logs it once
\* and leaves no_face_counter at 0.  Every frame without a face leaves
\* look_away_counter at 0 and every frame with a face leaves
\* no_face_counter at 0.
C26_MonitorNoFace ==
    [][Checked =>
        LET f == request'.frame
            N == monitor.warning_threshold_no_face
            warning == response'.result.warning
        IN  /\ f.face => monitor'.no_face_counter = 0
            /\ ~f.face =>
                  /\ monitor'.look_away_counter = 0
                  /\ IF monitor.no_face_counter < N - 1
                     THEN /\ warning = MonitorNone
                          /\ monitor'.no_face_counter
                                = monitor.no_face_counter + 1
                          /\ monitor'.warnings = monitor.warnings
                     ELSE /\ warning = MonitorWarning("no_face")
                          /\ monitor'.no_face_counter = 0
                          /\ monitor'.warnings
                                = Append(monitor.warnings, warning)]_vars

\* the default monitor has returned a no_face warning: its 60th frame in a
\* row without a face
C26_Witness ==
    /\ request.op = "check_attention"
    /\ monitor.warning_threshold_no_face = 60
    /\ response.result.warning.type = "no_face"
    /\ monitor.no_face_counter = 0

\* the look-away condition of the monitor on the frame of the call: head
\* off center, or the third frame in a row with the estimator's flag closed
MonitorAway ==
    LET f == request'.frame
    IN  \/ f.tilt # "center" \/ f.nod # "center"
        \/ monitor'.eye_closure_counter >= EAR_CONSECUTIVE_FRAMES

\* C27.  With M = warning_threshold_look_away: a look_away warning is
\* returned exactly by a frame with a face and a sleep result that meets the
\* look-away condition and finds look_away_counter at M - 1, and it leaves
\* the counter at 0; such a frame that finds it lower adds one; a frame
\* judged looking at the screen leaves it at 0 and reports attention level
\* 100; a frame with a face and no sleep result leaves it as it is.
C27_MonitorLookAway ==
    [][Checked =>
        LET f == request'.frame
            M == monitor.warning_threshold_look_away
            result == response'.result
            due == /\ f.face /\ f.sleep /\ MonitorAway
                   /\ monitor.look_away_counter >= M - 1
        IN  /\ result.warning.type = "look_away" <=> due
            /\ due => monitor'.look_away_counter = 0
            /\ (f.face /\ f.sleep /\ MonitorAway /\ ~due) =>
                  /\ monitor'.look_away_counter = monitor.look_away_counter + 1
                  /\ ~result.looking_at_screen
            /\ (f.face /\ f.sleep /\ ~MonitorAway) =>
                  /\ monitor'.look_away_counter = 0
                  /\ result.looking_at_screen
                  /\ result.attention_level = 100
            /\ (f.face /\ ~f.sleep) =>
                  monitor'.look_away_counter = monitor.look_away_counter]_vars

\* the default monitor has returned a look_away warning: its 45th look-away
\* frame since the streak was last reset
C27_Witness ==
    /\ request.op = "check_attention"
    /\ monitor.warning_threshold_look_away = 45
    /\ request.frame.face /\ request.frame.sleep
    /\ response.result.warning.type = "look_away"
    /\ monitor.look_away_counter = 0

\* C28.  The log grows by exactly the warning a check_attention call
\* returns, at its end, and by nothing when the call returns none; reset
\* leaves both counters at 0 and the log empty; get_warnings returns the
\* log and changes nothing.  (So the log is, in order, the warnings
\* returned since construction or the last reset.)
C28_WarningLog ==
    [][/\ Checked =>
             monitor'.warnings =
                 IF response'.result.warning = MonitorNone
                 THEN monitor.warnings
                 ELSE Append(monitor.warnings, response'.result.warning)
       /\ request'.op = "reset" =>
             /\ monitor'.no_face_counter = 0
             /\ monitor'.look_away_counter = 0
             /\ monitor'.warnings = <<>>
       /\ request'.op = "get_warnings" =>
             /\ response'.warnings = monitor.warnings
             /\ monitor' = monitor
       /\ request'.op = "construct" =>
             /\ monitor'.warnings = <<>>
             /\ monitor'.no_face_counter = 0
             /\ monitor'.look_away_counter = 0]_vars

\* get_warnings has returned a log of two warnings of different types
C28_Witness ==
    /\ request.op = "get_warnings"
    /\ Len(response.warnings) = 2
    /\ response.warnings[1].type # response.warnings[2].type

-----------------------------------------------------------------------------
(* C29, C30.  SleepDetection.check_drowsiness.                              *)

\* the state is the one after a check_drowsiness call for face_id
DrowsinessChecked(face_id) ==
    request.op = "check_drowsiness" /\ request.face_id = face_id

\* the length of the run of closed entries a history ends with
ClosedRun(history) ==
    LET n == Len(history)
        open == {i \in 1..n : history[i] = 0}
    IN  IF open = {} THEN n
        ELSE n - (CHOOSE i \in open : \A j \in open : j <= i)

\* C29.  After a check_drowsiness call for a face id, is_drowsy is true
\* exactly when the call and the two calls before it for that face id all
\* had eyes_open = false: the history of the face id holds at least three
\* entries and its last three are closed.  closure_frames is the length of
\* the closed run the calls for the face id end with: the closed run at the
\* end of the history, or at least the whole history when every entry kept
\* is closed; it is 0 after a call with eyes open.
C29_DrowsyFlag ==
    \A face_id \in FaceIds :
        DrowsinessChecked(face_id) =>
            LET history == detector.eye_closure_history[face_id]
                n == Len(history)
                result == response.result
            IN  /\ result.is_drowsy <=>
                      /\ n >= 3
                      /\ \A i \in (n - 2)..n : history[i] = 1
                /\ result.closure_frames = detector.eye_closure_counter[face_id]
                /\ IF ClosedRun(history) < n
                   THEN result.closure_frames = ClosedRun(history)
                   ELSE result.closure_frames >= n
                /\ request.eyes_open => result.closure_frames = 0

\* the third closed call in a row for one face id, while the calls for the
\* other face id had the eyes open
C29_Witness ==
    /\ DrowsinessChecked("face_0")
    /\ response.result.is_drowsy
    /\ response.result.closure_frames = 3
    /\ "face_1" \in DOMAIN detector.eye_closure_counter
    /\ detector.eye_closure_counter["face_1"] = 0

\* the last n entries of a sequence
LastEntries(seq, n) == SubSeq(seq, Len(seq) - n + 1, Len(seq))

\* C30.  A check_drowsiness call appends the eye state of the call to the
\* history of its face id and keeps the last 30 entries, so that the
\* history holds the most recent min(k, 30) eye states after k calls and
\* never more than 30; the histories of other face ids are left alone;
\* is_sleepy is true exactly when more than half of the entries kept are
\* closed; drowsiness_level is 'sleepy' when is_sleepy, else 'drowsy' when
\* is_drowsy, else 'awake'.
C30_HistoryWindow ==
    [][request'.op = "check_drowsiness" =>
        LET face_id == request'.face_id
            before == IF face_id \in DOMAIN detector.eye_closure_history
                      THEN detector.eye_closure_history[face_id] ELSE <<>>
            after == detector'.eye_closure_history[face_id]
            entry == IF request'.eyes_open THEN 0 ELSE 1
            result == response'.result
        IN  /\ after = LastEntries(Append(before, entry),
                                   Min(Len(before) + 1, HistoryWindow))
            /\ Len(after) <= HistoryWindow
            /\ \A other \in DOMAIN detector.eye_closure_history \ {face_id} :
                  detector'.eye_closure_history[other]
                     = detector.eye_closure_history[other]
            /\ result.is_sleepy <=> 2 * ClosedEntries(after) > Len(after)
            /\ result.drowsiness_level =
                  IF result.is_sleepy THEN "sleepy"
                  ELSE IF result.is_drowsy THEN "drowsy" ELSE "awake"]_vars

\* a full history has lost its oldest entries: the call was drowsy and not
\* sleepy, three closed entries behind twenty-seven open ones
C30_Witness ==
    \E face_id \in FaceIds :
        /\ DrowsinessChecked(face_id)
        /\ Len(detector.eye_closure_history[face_id]) = HistoryWindow
        /\ detector.eye_closure_history[face_id][1] = 0
        /\ ClosedEntries(detector.eye_closure_history[face_id]) = 3
        /\ response.result.drowsiness_level = "drowsy"

-----------------------------------------------------------------------------
(* C31.  Stored warnings and emitted warnings.                              *)

\* C31 as claimed: for every session started for attention monitoring the
\* list kept for its identifier in attention_warnings, the one stop counts
\* for total_warnings, equals the warnings list of the session record, also
\* when start is called again on a live session.
C31_AsClaimed ==
    \A sid \in SessionIds :
        AttentionSession(sid) =>
            StoredWarnings(sid) = active_sessions[sid].warnings

-----------------------------------------------------------------------------
(* C32.  The two endpoint families.                                         *)

MoodCalls == {"mood_start", "mood_process", "mood_stop"}

\* C32 as claimed: a call of the mood endpoints never changes what a later
\* attention process or attention stop call on a live attention session
\* with the same identifier returns.  (So whatever the next attention call
\* is, it returns after the mood call what it would have returned in its
\* place.)
C32_AsClaimed ==
    [][request'.op \in MoodCalls =>
        \A sid \in SessionIds :
            AttentionSession(sid) =>
                \A t \in MoodInstants :
                    t >= now' =>
                        /\ \A f \in MoodFrames :
                              CallResult(active_sessions', attention_warnings',
                                         eye_closure_counter', sid, f, t).response
                              = CallResult(active_sessions, attention_warnings,
                                           eye_closure_counter, sid, f, t).response
                        /\ StopOutcome(active_sessions', attention_warnings',
                                       sid, t).response
                           = StopOutcome(active_sessions, attention_warnings,
                                         sid, t).response]_vars

-----------------------------------------------------------------------------
(* C33.  The attentive state with the estimators of the repository.         *)

\* process_attention would report looking_at_screen = true for sid on frame
\* f, were it called now
WouldLook(sid, f) ==
    LET result == CallResult(active_sessions, attention_warnings,
                             eye_closure_counter, sid, f, now)
    IN  /\ result.response.status = "success"
        /\ result.response.eyes_open
        /\ result.response.attention.looking_at_screen

\* C33 as claimed: among the frames whose eye data has the shape
\* SleepDetection produces there are frames on which process_attention
\* judges the eyes open and reports looking_at_screen = true.  (So for every
\* session started for attention monitoring some such frame would be
\* reported attentive by the next call.)
C33_AsClaimed ==
    \A sid \in SessionIds :
        AttentionSession(sid) => \E f \in EstimatorFrames : WouldLook(sid, f)

\* what holds instead: no process call on such a frame judges the eyes open
\* on a face or reports looking_at_screen = true
NeverAttentive ==
    (request.op = "process" /\ response.status = "success")
    => /\ ~response.attention.looking_at_screen
       /\ request.frame.face /\ request.frame.sleep => ~response.eyes_open


\* C34: a stop call that runs while a process call for the same live
\* session is in flight leaves both calls successful: the process call
\* answers with status success and the stop call returns its summary.
C34_AsClaimed ==
    /\ request.op = "process" => response.status = "success"
    /\ request.op = "stop" => response.status = "success"


\* C35: on the same frame signals the two process handlers judge the eyes
\* alike and report the same attention level.  Checked on every successful
\* process_attention call against what process_mood returns for the same
\* frame, session and clock reading.
C35_AsClaimed ==
    [][\A sid \in SessionIds :
          LET f == request'.frame
              mood == MoodOutcome(active_sessions, mood_data, sid, f,
                                  "neutral", request'.tc).response
          IN  (Live(sid) /\ Processed(sid)' /\ mood.status = "success") =>
                  /\ EyeFrame(f) =>
                        mood.sleepiness.eyes_open = response'.eyes_open
                  /\ mood.focus.attention_level =
                        response'.attention.attention_level]_vars

=============================================================================
